---- MODULE Spec2Model ----
(***************************************************************************)
(* A model of the validation engine of keleshev/schema                     *)
(* (src/schema/__init__.py, version 0.7.7).                                *)
(*                                                                         *)
(* Python values are records [t |-> type name, v |-> payload]: the payload *)
(* of an atom is its printed form (a string), the payload of a dict is the *)
(* sequence of its <<key, value>> items in insertion order, the payload of *)
(* a list is the sequence of its elements.                                 *)
(*                                                                         *)
(* Schema nodes are records tagged by "kind".  The only mutable field of a *)
(* schema tree is Or.match_count: every Or object of a tree has an "id",   *)
(* and the variable mc maps ids to the counts.                             *)
(***************************************************************************)
EXTENDS Integers, Sequences, FiniteSets, TLC

VARIABLES sid, ord, mc, calls, last, rep

vars == <<sid, ord, mc, calls, last, rep>>

(***************************************************************************)
(* Bounds of the model.                                                    *)
(***************************************************************************)
\* top-level validate calls made on one schema object in one behaviour
MaxCalls == 3
\* items of an input mapping, elements of an input list
MaxItems == 2

(***************************************************************************)
(* Python values.                                                          *)
(***************************************************************************)
PInt(s) == [t |-> "int", v |-> s]
PStr(s) == [t |-> "str", v |-> s]
PBool(s) == [t |-> "bool", v |-> s]
PNone == [t |-> "NoneType", v |-> "None"]
PDict(items) == [t |-> "dict", v |-> items]
PList(xs) == [t |-> "list", v |-> xs]
PTuple(xs) == [t |-> "tuple", v |-> xs]
\* an instance of a subclass of list
PSubList(xs) == [t |-> "sublist", v |-> xs]

IsAtom(x) == x.t \in {"int", "str", "bool", "NoneType"}

\* the number a bool or an int stands for (True is 1, False is 0)
NumVal(x) == IF x.t = "bool" THEN (IF x.v = "True" THEN "1" ELSE "0") ELSE x.v

\* Python's == between a comparable literal and any value
PyEq(a, b) ==
    IF ~IsAtom(a) \/ ~IsAtom(b) THEN a = b
    ELSE IF a.t \in {"int", "bool"} /\ b.t \in {"int", "bool"}
         THEN NumVal(a) = NumVal(b)
         ELSE a.t = b.t /\ a.v = b.v

\* Python's isinstance(data, T) for the builtin types of the model: every value
\* is an object, and bool is a subclass of int
IsInstance(data, typ) ==
    \/ typ = "object"
    \/ data.t = typ
    \/ (typ = "int" /\ data.t = "bool")
    \/ (typ = "list" /\ data.t = "sublist")

\* Python's truth value of an atom
Truthy(x) ==
    CASE x.t = "bool" -> x.v = "True"
      [] x.t = "int" -> x.v # "0"
      [] x.t = "str" -> x.v # ""
      [] x.t = "NoneType" -> FALSE
      [] OTHER -> Len(x.v) > 0

(***************************************************************************)
(* The callables the schemas of the model use: the builtins str and int,   *)
(* and the predicates of the tests.  A call returns or raises.             *)
(***************************************************************************)
Ret(x) == [raised |-> FALSE, val |-> x, se |-> FALSE]
Raised == [raised |-> TRUE, val |-> PNone, se |-> FALSE]

\* a call that raised SchemaError("first auto", "first error")
RaisedSe == [raised |-> TRUE, val |-> PNone, se |-> TRUE]

\* str(x)
CallStr(x) == IF IsAtom(x) THEN Ret(PStr(x.v)) ELSE Ret(PStr("<repr>"))

\* int(x): parses the digits of a string, ValueError/TypeError otherwise
CallInt(x) ==
    CASE x.t = "int" -> Ret(x)
      [] x.t = "bool" -> Ret(PInt(NumVal(x)))
      [] x.t = "str" -> IF x.v \in {"0", "1", "2", "5", "9", "11", "22"}
                        THEN Ret(PInt(x.v)) ELSE Raised
      [] OTHER -> Raised

\* lambda n: 0 < n < 5
CallInRange(x) ==
    CASE x.t = "int" -> Ret(PBool(IF x.v \in {"1", "2"} THEN "True" ELSE "False"))
      [] x.t = "bool" -> Ret(PBool(x.v))
      [] OTHER -> Raised

Call(f, x) ==
    CASE f = "str" -> CallStr(x)
      [] f = "int" -> CallInt(x)
      [] f = "in_range" -> CallInRange(x)
      [] f = "raises" -> Raised
      [] f = "se" -> RaisedSe
      [] OTHER -> Ret(PNone)

(***************************************************************************)
(* Schema nodes.                                                           *)
(***************************************************************************)
COMPARABLE == 0
CALLABLE == 1
VALIDATOR == 2
TYPE == 3
DICT == 4
ITERABLE == 5

\* a comparable literal, a type, a predicate
Lit(x) == [kind |-> "lit", v |-> x]
TypeN(typ) == [kind |-> "type", typ |-> typ]
Fn(f) == [kind |-> "fn", f |-> f]
\* a dict schema (its <<key, value>> entries in insertion order), a list schema
DictS(entries) == [kind |-> "dict", entries |-> entries]
ListS(elems) == [kind |-> "list", ctype |-> "list", elems |-> elems]
TupleS(elems) == [kind |-> "list", ctype |-> "tuple", elems |-> elems]
\* the validator objects
Use(f) == [kind |-> "use", f |-> f, error |-> "None"]

\* an object whose validate attribute is not callable: validate(data) raises
\* a TypeError
BadValidator == [kind |-> "bad"]
UseE(f, e) == [kind |-> "use", f |-> f, error |-> e]
Regex(pattern, e) == [kind |-> "regex", pattern |-> pattern, error |-> e]
And(args) == [kind |-> "and", args |-> args, error |-> "None", ignore |-> FALSE]
Or(id, args, only_one) ==
    [kind |-> "or", id |-> id, args |-> args, only_one |-> only_one,
     error |-> "None", ignore |-> FALSE]
\* And(*args, error=e)
AndE(args, e) == [And(args) EXCEPT !.error = e]
\* Or(*args, only_one=only_one, error=e)
OrE(id, args, only_one, e) == [Or(id, args, only_one) EXCEPT !.error = e]
SchemaOf(s, e, i) == [kind |-> "schema", s |-> s, error |-> e, ignore |-> i]
Schema(s) == SchemaOf(s, "None", FALSE)
Optional(s) ==
    [kind |-> "optional", s |-> s, error |-> "None", ignore |-> FALSE,
     has_default |-> FALSE, default |-> PNone, factory |-> "None"]
\* Optional(s, default=d); key is str(s)
OptionalKey(s) == PStr(s.v.v)
OptionalD(s, d) ==
    [kind |-> "optional", s |-> s, error |-> "None", ignore |-> FALSE,
     has_default |-> TRUE, default |-> d, factory |-> "None", key |-> OptionalKey(s)]
\* Optional(s, default=f) with a callable f that returns d
OptionalF(s, f, d) ==
    [kind |-> "optional", s |-> s, error |-> "None", ignore |-> FALSE,
     has_default |-> TRUE, default |-> d, factory |-> f, key |-> OptionalKey(s)]
Hook(s, handler) ==
    [kind |-> "hook", s |-> s, error |-> "None", ignore |-> FALSE, handler |-> handler]
Forbidden(s) == Hook(s, "forbid")

Priority(s) ==
    CASE s.kind = "list" -> ITERABLE
      [] s.kind = "dict" -> DICT
      [] s.kind = "type" -> TYPE
      [] s.kind \in {"and", "or", "use", "regex", "schema", "optional", "hook", "bad"}
           -> VALIDATOR
      [] s.kind = "fn" -> CALLABLE
      [] OTHER -> COMPARABLE

\* a priority that takes no account of the Hook and Optional markers
DictKeyPriorityUnmarked(s) ==
    CASE s.kind \in {"hook", "optional"} -> 2 * Priority(s.s)
      [] OTHER -> 2 * Priority(s)

\* _dict_key_priority, doubled so that the halves are integers
DictKeyPriority(s) ==
    CASE s.kind = "hook" -> 2 * Priority(s.s) - 1
      [] s.kind = "optional" -> 2 * Priority(s.s) + 1
      [] OTHER -> 2 * Priority(s)

\* a Hook key counted among the required keys
IsOptionalOnly(s) == s.kind = "optional"

\* _is_optional_type
IsOptionalType(s) == s.kind \in {"optional", "hook"}

\* the registration without Optional.reset
HasResetOrOnly(s) == s.kind = "or"

\* hasattr(skey, "reset"): Or.reset and Optional.reset are the only ones
HasReset(s) == s.kind \in {"or", "optional"}

(***************************************************************************)
(* Errors and results.                                                     *)
(***************************************************************************)
SchemaErrors ==
    {"SchemaError", "SchemaWrongKeyError", "SchemaMissingKeyError",
     "SchemaOnlyOneAllowedError", "SchemaForbiddenKeyError",
     "SchemaUnexpectedTypeError"}

MNone == [m |-> "None"]

\* the error templates with a replacement field
WithField == {"bad {}"}

\* what format puts in the place of a field: str(data), the printed form of
\* an atom without the quotes that tell '1' from 1
Filling(data) == IF IsAtom(data) THEN [t |-> "text", v |-> data.v] ELSE data

\* e.format(data) if e else None: the text of a template without a field does
\* not depend on the data
Fmt(e, data) ==
    IF e = "None" THEN MNone
    ELSE IF e \in WithField THEN [m |-> "user", tpl |-> e, arg |-> Filling(data)]
    ELSE [m |-> "user", tpl |-> e]

\* the template itself, as Forbidden._default_function passes it on: the text
\* of a template without a field is the text format gives
Raw(e) ==
    IF e = "None" THEN MNone
    ELSE IF e \in WithField THEN [m |-> "raw", tpl |-> e]
    ELSE [m |-> "user", tpl |-> e]

NoErr == [cls |-> "", autos |-> <<>>, errors |-> <<>>]
Ok(x, st) == [ok |-> TRUE, val |-> x, err |-> NoErr, st |-> st]
\* the state after a validation error was raised: st.errs are the errors
\* raised so far, caught or not
Raising(st, err) == [st EXCEPT !.errs = Append(@, err)]

\* raise cls(autos, errors)
Fail(cls, autos, errors, st) ==
    [ok |-> FALSE, val |-> PNone,
     err |-> [cls |-> cls, autos |-> autos, errors |-> errors],
     st |-> Raising(st, [cls |-> cls, autos |-> autos, errors |-> errors])]
\* an exception that is no SchemaError
Throw(st) ==
    [ok |-> FALSE, val |-> PNone,
     err |-> [cls |-> "Exception", autos |-> <<>>, errors |-> <<>>], st |-> st]

IsSchemaError(err) == err.cls \in SchemaErrors

\* uniq(seq): the entries of seq[n..] that are not None and not in seen, each
\* once, in the order of their first occurrence
RECURSIVE UniqFrom(_, _, _)
UniqFrom(seq, n, seen) ==
    IF n > Len(seq) THEN <<>>
    ELSE IF seq[n] # MNone /\ seq[n] \notin seen
    THEN <<seq[n]>> \o UniqFrom(seq, n + 1, seen \cup {seq[n]})
    ELSE UniqFrom(seq, n + 1, seen)

Uniq(seq) == UniqFrom(seq, 1, {})

\* SchemaError.code: the lines that "\n".join puts together
Code(err) == IF Uniq(err.errors) # <<>> THEN Uniq(err.errors) ELSE Uniq(err.autos)

Logged(st, ev) == [st EXCEPT !.log = Append(@, ev)]

(***************************************************************************)
(* Atomic checks.                                                          *)
(***************************************************************************)
\* the type check without the carve-out for bool
TypeAcceptsBool(data, typ) == IsInstance(data, typ)

\* isinstance(data, s) and not (isinstance(data, bool) and s == int)
TypeAccepts(data, typ) ==
    IsInstance(data, typ) /\ ~(IsInstance(data, "bool") /\ typ = "int")

TypeValidate(typ, e, data, st) ==
    IF TypeAccepts(data, typ) THEN Ok(data, st)
    ELSE Fail("SchemaUnexpectedTypeError",
              <<[m |-> "type", data |-> data, typ |-> typ]>>, <<Fmt(e, data)>>, st)

\* an except clause caught a SchemaError to raise it again with its context
Caught(st) == Logged(st, [ev |-> "reraise"])

\* the SchemaError of the callable "se", and the except clause that catches a
\* SchemaError raised by a callable: one entry is put before its lists
SeError ==
    [cls |-> "SchemaError", autos |-> <<[m |-> "said", tpl |-> "first auto"]>>,
     errors |-> <<[m |-> "user", tpl |-> "first error"]>>]

Reraise(e, data, st) ==
    Fail("SchemaError", <<MNone>> \o SeError.autos, <<Fmt(e, data)>> \o SeError.errors,
         Caught(Raising(st, SeError)))

ComparableValidate(s, e, data, st) ==
    IF PyEq(s.v, data) THEN Ok(data, st)
    ELSE Fail("SchemaError", <<[m |-> "match", s |-> s.v, data |-> data]>>,
              <<Fmt(e, data)>>, st)

\* a callable whose own result is returned in place of the data
CallableResult(s, e, data, st) ==
    LET c == Call(s.f, data)
        st1 == Logged(st, [ev |-> "call", by |-> "callable", f |-> s.f, arg |-> data])
    IN  IF c.raised /\ c.se THEN Reraise(e, data, st1)
        ELSE IF c.raised
        THEN Fail("SchemaError", <<[m |-> "raised", f |-> s.f, data |-> data]>>,
                  <<Fmt(e, data)>>, st1)
        ELSE IF Truthy(c.val) THEN Ok(c.val, st1)
        ELSE Fail("SchemaError", <<[m |-> "true", f |-> s.f, data |-> data]>>,
                  <<Fmt(e, data)>>, st1)

CallableValidate(s, e, data, st) ==
    LET c == Call(s.f, data)
        st1 == Logged(st, [ev |-> "call", by |-> "callable", f |-> s.f, arg |-> data])
    IN  IF c.raised /\ c.se THEN Reraise(e, data, st1)
        ELSE IF c.raised
        THEN Fail("SchemaError", <<[m |-> "raised", f |-> s.f, data |-> data]>>,
                  <<Fmt(e, data)>>, st1)
        ELSE IF Truthy(c.val) THEN Ok(data, st1)
        ELSE Fail("SchemaError", <<[m |-> "true", f |-> s.f, data |-> data]>>,
                  <<Fmt(e, data)>>, st1)

UseValidate(self, data, st) ==
    LET c == Call(self.f, data)
        st1 == Logged(st, [ev |-> "call", by |-> "use", f |-> self.f, arg |-> data])
    IN  IF c.raised /\ c.se THEN Reraise(self.error, data, st1)
        ELSE IF c.raised
        THEN Fail("SchemaError", <<[m |-> "raised", f |-> self.f, data |-> data]>>,
                  <<Fmt(self.error, data)>>, st1)
        ELSE Ok(c.val, st1)

\* self._pattern.search(data) for the pattern "^foo"
Search(pattern, v) == pattern = "^foo" /\ v \in {"foo", "fookey", "foovalue"}

\* Regex.validate: a mismatch, and a TypeError of search, raise
\* SchemaError(error_message), the message being the Regex's formatted error
\* when it has one
RegexValidate(self, data, st) ==
    IF data.t = "str" /\ Search(self.pattern, data.v) THEN Ok(data, st)
    ELSE Fail("SchemaError",
              <<IF self.error # "None" THEN Fmt(self.error, data)
                ELSE IF data.t = "str"
                THEN [m |-> "nomatch", data |-> data, pattern |-> self.pattern]
                ELSE [m |-> "nostring", data |-> data]>>,
              <<MNone>>, st)

(***************************************************************************)
(* Or.match_count and Or.reset.                                            *)
(***************************************************************************)
\* an Or that does not count its matches
CountNoMatch(self, st) == st

\* self.match_count += 1 (the Or an iterable schema builds per call is id 0:
\* a fresh object, dropped with its count when the call returns)
CountMatch(self, st) ==
    IF self.id = 0 THEN st ELSE [st EXCEPT !.mc[self.id] = @ + 1]

\* an Or that never sees a second match
TooManyNever(self, st) == FALSE

\* match_count > 1 and only_one
TooMany(self, st) == self.id # 0 /\ st.mc[self.id] > 1 /\ self.only_one

\* Or.reset: [raised, st]
OrReset(self, st) ==
    [raised |-> TooMany(self, st),
     st |-> IF self.id = 0 THEN st ELSE [st EXCEPT !.mc[self.id] = 0]]

\* Optional.reset: resets the wrapped schema if that has a reset
OptionalReset(self, st) ==
    IF self.s.kind = "or" THEN OrReset(self.s, st)
    ELSE [raised |-> FALSE, st |-> st]

\* skey.reset() of a schema key with HasReset
KeyReset(skey, st) ==
    IF skey.kind = "or" THEN OrReset(skey, st) ELSE OptionalReset(skey, st)

(***************************************************************************)
(* The dispatcher and the combinators.  Every operator takes the state     *)
(* st = [mc, log, errs] and returns a result carrying the state it left, also    *)
(* when it failed.  cx = [dp, ord]: the number of enclosing containers,    *)
(* and the iteration order of the set of unused defaults.  The result of a *)
(* nested validate call is handed to the operator that continues with it.  *)
(***************************************************************************)
RECURSIVE SchemaValidate(_, _, _, _)
RECURSIVE ValidatorValidate(_, _, _, _)
RECURSIVE AndLoop(_, _, _, _, _)
RECURSIVE OrLoop(_, _, _, _, _, _, _)
RECURSIVE IterLoop(_, _, _, _, _, _)
RECURSIVE KeyScan(_, _, _, _, _, _, _)
RECURSIVE ItemLoop(_, _, _, _, _, _, _)

Inner(cx) == [cx EXCEPT !.dp = @ + 1]

\* And._build_schema
BuildSchema(self, arg) == SchemaOf(arg, self.error, self.ignore)

\* every sub-schema of an And fed the original data
AndFeedOriginal(out, data) == data

\* the data the next sub-schema of an And receives: the previous one's output
AndFeed(out, data) == out

\* data = sub_schema.validate(data): r is the sub-schema's result
AndStep(self, i, data, cx, r) ==
    IF r.ok THEN AndLoop(self, i + 1, AndFeed(r.val, data), r.st, cx) ELSE r

\* And.validate, from the i-th sub-schema on
AndLoop(self, i, data, st, cx) ==
    IF i > Len(self.args) THEN Ok(data, st)
    ELSE AndStep(self, i, data, cx,
                 SchemaValidate(BuildSchema(self, self.args[i]), data, st, cx))

\* a raise that leaves out the Or's own entry of errors
OrRaiseBare(self, data, autos, errors, st) ==
    Fail("SchemaError", <<[m |-> "or", data |-> data]>> \o autos, errors, st)

\* the raise that ends Or.validate
OrRaise(self, data, autos, errors, st) ==
    Fail("SchemaError", <<[m |-> "or", data |-> data]>> \o autos,
         <<Fmt(self.error, data)>> \o errors, st)

\* a sub-schema validated: count the match, then return its value, or break
\* out of the loop to the raise when only_one has seen a second match
OrMatched(self, data, autos, errors, val, st) ==
    IF TooMany(self, st) THEN OrRaise(self, data, autos, errors, st) ELSE Ok(val, st)

\* an Or that keeps the chain of the last failed alternative only
OrStepLast(self, i, data, autos, errors, cx, r) ==
    IF r.ok THEN OrMatched(self, data, autos, errors, r.val, CountMatch(self, r.st))
    ELSE IF IsSchemaError(r.err)
    THEN OrLoop(self, i + 1, data, r.st, r.err.autos, r.err.errors, cx)
    ELSE r

\* an Or that gives up at the first alternative that fails
OrStepNoRetry(self, i, data, autos, errors, cx, r) ==
    IF r.ok THEN OrMatched(self, data, autos, errors, r.val, CountMatch(self, r.st)) ELSE r

\* the body of the loop of Or.validate: r is the i-th sub-schema's result
OrStep(self, i, data, autos, errors, cx, r) ==
    IF r.ok THEN OrMatched(self, data, autos, errors, r.val, CountMatch(self, r.st))
    ELSE IF IsSchemaError(r.err)
    THEN OrLoop(self, i + 1, data, r.st, autos \o r.err.autos, errors \o r.err.errors, cx)
    ELSE r

\* Or.validate, from the i-th sub-schema on
OrLoop(self, i, data, st, autos, errors, cx) ==
    IF i > Len(self.args) THEN OrRaise(self, data, autos, errors, st)
    ELSE OrStep(self, i, data, autos, errors, cx,
                SchemaValidate(BuildSchema(self, self.args[i]), data, st, cx))

\* s.validate(data) of a validator object s
ValidatorValidate(s, data, st, cx) ==
    CASE s.kind = "and" -> AndLoop(s, 1, data, st, cx)
      [] s.kind = "or" -> OrLoop(s, 1, data, st, <<>>, <<>>, cx)
      [] s.kind = "use" -> UseValidate(s, data, st)
      [] s.kind = "regex" -> RegexValidate(s, data, st)
      [] s.kind = "bad" ->
           Throw(Logged(st, [ev |-> "call", by |-> "validator", f |-> "validate",
                             arg |-> data]))
      [] OTHER -> SchemaValidate(s, data, st, cx)

\* o.validate(d) for d in data: r is the result for the i-th element
IterStep(o, xs, i, acc, cx, r) ==
    IF r.ok THEN IterLoop(o, xs, i + 1, Append(acc, r.val), r.st, cx) ELSE r

IterLoop(o, xs, i, acc, st, cx) ==
    IF i > Len(xs) THEN Ok(acc, st)
    ELSE IterStep(o, xs, i, acc, cx, ValidatorValidate(o, xs[i], st, cx))

\* Or(*s, error=e, schema=Schema, ignore_extra_keys=i)
ElementsOr(self) ==
    [kind |-> "or", id |-> 0, args |-> self.s.elems, only_one |-> FALSE,
     error |-> self.error, ignore |-> self.ignore]

\* a result that is always a plain list
RetypeList(data, r) == IF r.ok THEN Ok(PList(r.val), r.st) ELSE r

\* type(data)(...): r is the result of the loop over the elements
Retype(data, r) == IF r.ok THEN Ok([t |-> data.t, v |-> r.val], r.st) ELSE r

\* Schema.validate for an iterable schema: r1 is the container type check
IterableValidate(self, data, cx, r1) ==
    IF ~r1.ok THEN r1
    ELSE Retype(data, IterLoop(ElementsOr(self), data.v, 1, <<>>, r1.st, Inner(cx)))

\* except clauses that catch validation errors only
RewrapSchemaError(e, data, r) ==
    IF r.ok \/ ~IsSchemaError(r.err) THEN r
    ELSE Fail("SchemaError", <<MNone>> \o r.err.autos,
              <<Fmt(e, data)>> \o r.err.errors, Caught(r.st))

\* except clauses that raise the inner error again as it came
RewrapBare(e, data, r) ==
    IF r.ok THEN r
    ELSE IF IsSchemaError(r.err)
    THEN Fail("SchemaError", r.err.autos, r.err.errors, Caught(r.st))
    ELSE Fail("SchemaError", <<[m |-> "validate_raised", data |-> data]>>,
              <<Fmt(e, data)>>, r.st)

\* the except clauses around s.validate(data): r is its result
Rewrap(e, data, r) ==
    IF r.ok THEN r
    ELSE IF IsSchemaError(r.err)
    THEN Fail("SchemaError", <<MNone>> \o r.err.autos,
              <<Fmt(e, data)>> \o r.err.errors, Caught(r.st))
    ELSE Fail("SchemaError", <<[m |-> "validate_raised", data |-> data]>>,
              <<Fmt(e, data)>>, r.st)

(***************************************************************************)
(* The dictionary matcher.                                                 *)
(***************************************************************************)
\* the elements of a finite set of integers, ascending
AscSeq(S) ==
    [r \in 1..Cardinality(S) |->
        CHOOSE i \in S : Cardinality({j \in S : j < i}) = r - 1]

Reverse(q) == [r \in 1..Len(q) |-> q[Len(q) + 1 - r]]

\* the schema keys in their insertion order
InsertionOrder(entries) == [r \in 1..Len(entries) |-> r]

\* sorted(s, key=self._dict_key_priority): the indices of the entries, by
\* priority, entries of equal priority in their insertion order (the sort is
\* stable)
SortedSkeys(entries) ==
    LET n == Len(entries)
        P(i) == DictKeyPriority(entries[i][1])
        Before(i) == {j \in 1..n : P(j) < P(i) \/ (P(j) = P(i) /\ j < i)}
    IN  [r \in 1..n |-> CHOOSE i \in 1..n : Cardinality(Before(i)) = r - 1]

IsMapping(x) == x.t = "dict"
IsFlat(it) == ~IsMapping(it[2])
IsNested(it) == IsMapping(it[2])

\* the items in the order the mapping gives them
DataItemsAsGiven(items) == items

\* sorted(data.items(), key=lambda value: isinstance(value[1], dict))
DataItems(items) == SelectSeq(items, IsFlat) \o SelectSeq(items, IsNested)

\* new[k] = x: an equal key keeps its place and its key object
DictSet(new, k, x) ==
    IF \E n \in 1..Len(new) : PyEq(new[n][1], k)
    THEN [n \in 1..Len(new) |->
            IF PyEq(new[n][1], k) THEN <<new[n][1], x>> ELSE new[n]]
    ELSE Append(new, <<k, x>>)

\* the handler was entered with the arguments (nkey, data, e)
Entered(nkey, data, e, st) ==
    Logged(st, [ev |-> "handle", nkey |-> nkey, data |-> data, error |-> e])

\* skey.handler(nkey, data, e): Forbidden._default_function raises the
\* forbidden-key error, the handler of a plain Hook returns ("noop") or raises
\* an exception of its own ("raises")
Handle(skey, nkey, data, e, st) ==
    IF skey.handler = "forbid"
    THEN Fail("SchemaForbiddenKeyError",
              <<[m |-> "forbidden", key |-> nkey, data |-> data]>>,
              <<Raw(e)>>, Entered(nkey, data, e, st))
    ELSE IF skey.handler = "raises" THEN Throw(Entered(nkey, data, e, st))
    ELSE Ok(PNone, Entered(nkey, data, e, st))

NoExc(acc) == [exc |-> FALSE, err |-> NoErr, acc |-> acc]
Exc(err, acc) == [exc |-> TRUE, err |-> err, acc |-> acc]
WithSt(acc, st) == [acc EXCEPT !.st = st]

SkeyAt(self, n) == self.s.entries[n][1]
SvalueAt(self, n) == self.s.entries[n][2]

\* the event of the pass at depth cx.dp about data key k and schema key n
Event(ev, cx, k, n) == [ev |-> ev, dp |-> cx.dp, key |-> k, sk |-> n]

\* raise SchemaError([message] + x.autos, [e.format(data) if e else None] + x.errors)
KeyError(e, data, nkey, err) ==
    [cls |-> "SchemaError",
     autos |-> <<[m |-> "key", key |-> nkey]>> \o err.autos,
     errors |-> <<Fmt(e, data)>> \o err.errors]

\* a binding that leaves the coverage as it was
BoundUncovered(acc, n, item, nkey, rv, cx) ==
    [new |-> DictSet(acc.new, nkey, rv.val), obj |-> acc.obj,
     coverage |-> acc.coverage,
     st |-> Logged(rv.st, [ev |-> "bind", dp |-> cx.dp, key |-> item[1], sk |-> n,
                           nkey |-> nkey, nvalue |-> rv.val])]

\* new[nkey] = nvalue; coverage.add(skey)
Bound(acc, n, item, nkey, rv, cx) ==
    [new |-> DictSet(acc.new, nkey, rv.val), obj |-> acc.obj,
     coverage |-> acc.coverage \cup {n},
     st |-> Logged(rv.st, [ev |-> "bind", dp |-> cx.dp, key |-> item[1], sk |-> n,
                           nkey |-> nkey, nvalue |-> rv.val])]

\* a scan that leaves the item once a handler has returned
HandledLast(self, sorted, j, item, data, acc, cx, rh) ==
    IF ~rh.ok THEN Exc(rh.err, WithSt(acc, rh.st)) ELSE NoExc(WithSt(acc, rh.st))

\* after skey.handler(nkey, data, e): rh is what the handler did
Handled(self, sorted, j, item, data, acc, cx, rh) ==
    IF ~rh.ok THEN Exc(rh.err, WithSt(acc, rh.st))
    ELSE KeyScan(self, sorted, j + 1, item, data, WithSt(acc, rh.st), cx)

\* a Hook whose value-schema failure is not caught
HookNeverSkips(rv) == FALSE

\* except SchemaError: continue, around the value-schema of a Hook key
HookSkips(rv) == ~rv.ok /\ IsSchemaError(rv.err)

\* a scan that goes on to the next schema key when the value-schema of an
\* ordinary key fails
KeyValueLenient(self, sorted, j, item, data, acc, cx, nkey, rv) ==
    IF SkeyAt(self, sorted[j]).kind = "hook"
    THEN IF HookSkips(rv)
         THEN KeyScan(self, sorted, j + 1, item, data,
                      WithSt(acc, Logged(rv.st, Event("skip", cx, item[1], sorted[j]))),
                      cx)
         ELSE IF ~rv.ok THEN Exc(rv.err, WithSt(acc, rv.st))
         ELSE Handled(self, sorted, j, item, data, acc, cx,
                      Handle(SkeyAt(self, sorted[j]), nkey, data, self.error,
                             Logged(rv.st, Event("hook", cx, item[1], sorted[j]))))
    ELSE IF ~rv.ok
         THEN KeyScan(self, sorted, j + 1, item, data, WithSt(acc, rv.st), cx)
         ELSE NoExc(Bound(acc, sorted[j], item, nkey, rv, cx))

\* the schema key sorted[j] accepted the data key as nkey, and rv is the
\* result of its value-schema on the data value
KeyValue(self, sorted, j, item, data, acc, cx, nkey, rv) ==
    IF SkeyAt(self, sorted[j]).kind = "hook"
    THEN IF HookSkips(rv)
         THEN KeyScan(self, sorted, j + 1, item, data,
                      WithSt(acc, Logged(rv.st, Event("skip", cx, item[1], sorted[j]))),
                      cx)
         ELSE IF ~rv.ok THEN Exc(rv.err, WithSt(acc, rv.st))
         ELSE Handled(self, sorted, j, item, data, acc, cx,
                      Handle(SkeyAt(self, sorted[j]), nkey, data, self.error,
                             Logged(rv.st, Event("hook", cx, item[1], sorted[j]))))
    ELSE IF ~rv.ok
         THEN IF IsSchemaError(rv.err)
              THEN Exc(KeyError(self.error, data, nkey, rv.err),
                       WithSt(acc, Raising(Logged(rv.st, Event("abort", cx, item[1],
                                                               sorted[j])),
                                           KeyError(self.error, data, nkey, rv.err))))
              ELSE Exc(rv.err, WithSt(acc, rv.st))
         ELSE NoExc(Bound(acc, sorted[j], item, nkey, rv, cx))

\* a value-schema that never gets the flag
ValueIgnoreNever(self, skey) == FALSE

\* the ignore_extra_keys flag the value-schema of a key is built with: a
\* Hook's value-schema gets none
ValueIgnore(self, skey) == IF skey.kind = "hook" THEN FALSE ELSE self.ignore

\* rk is the result of the key-schema of sorted[j] on the data key
KeyMatched(self, sorted, j, item, data, acc, cx, rk) ==
    IF ~rk.ok
    THEN KeyScan(self, sorted, j + 1, item, data, WithSt(acc, rk.st), cx)
    ELSE KeyValue(self, sorted, j, item, data, acc, cx, rk.val,
                  SchemaValidate(SchemaOf(SvalueAt(self, sorted[j]), self.error,
                                          ValueIgnore(self, SkeyAt(self, sorted[j]))),
                                 item[2], rk.st, Inner(cx)))

\* for skey in sorted_skeys, from the j-th key on, for one data item;
\* acc = [new, coverage, st]
KeyScan(self, sorted, j, item, data, acc, cx) ==
    IF j > Len(sorted) THEN NoExc(acc)
    ELSE KeyMatched(self, sorted, j, item, data, acc, cx,
                    SchemaValidate(SchemaOf(SkeyAt(self, sorted[j]), self.error, FALSE),
                                   item[1], acc.st, Inner(cx)))

\* r is what the scan for the k-th item did
ItemNext(self, sorted, items, k, data, cx, r) ==
    IF r.exc THEN r ELSE ItemLoop(self, sorted, items, k + 1, data, r.acc, cx)

\* for key, value in data_items, from the k-th item on
ItemLoop(self, sorted, items, k, data, acc, cx) ==
    IF k > Len(items) THEN NoExc(acc)
    ELSE ItemNext(self, sorted, items, k, data, cx,
                  KeyScan(self, sorted, 1, items[k], data, acc, cx))

OnlyOneError(n) ==
    [cls |-> "SchemaOnlyOneAllowedError",
     autos |-> <<[m |-> "only_one", sk |-> n]>>, errors |-> <<MNone>>]

\* an exit that keeps the exception the block was left with
PendingFirst(pend, n, raised) ==
    IF raised /\ ~pend.exc THEN [exc |-> TRUE, err |-> OnlyOneError(n)] ELSE pend

\* the exception that leaves the with block after the callback of key n ran
Pending(pend, n, raised) ==
    IF raised THEN [exc |-> TRUE, err |-> OnlyOneError(n)] ELSE pend

\* the exit of "with exitstack": the callbacks registered for resets[1..n],
\* last registered first; each runs, and the last exception raised is the one
\* that leaves the block.  pend = [exc, err]
RECURSIVE RunResets(_, _, _, _, _, _)
RunResets(entries, resets, n, pend, st, cx) ==
    IF n = 0 THEN [exc |-> pend.exc, err |-> pend.err, st |-> st]
    ELSE LET r == KeyReset(entries[resets[n]][1], st)
         IN  RunResets(entries, resets, n - 1, Pending(pend, resets[n], r.raised),
                       Logged(IF r.raised THEN Raising(r.st, OnlyOneError(resets[n]))
                              ELSE r.st,
                              [ev |-> "reset", dp |-> cx.dp, sk |-> resets[n],
                               raised |-> r.raised]),
                       cx)

\* a pass that registers the reset of one key at most
ResetsFirst(entries, sorted) ==
    LET HasResetAt(i) == HasReset(entries[i][1])
    IN  SubSeq(SelectSeq(sorted, HasResetAt), 1, 1)

\* the schema keys whose reset the pass registers, in registration order
Resets(entries, sorted) ==
    LET HasResetAt(i) == HasReset(entries[i][1])
    IN  SelectSeq(sorted, HasResetAt)

\* required = set(k for k in s if not self._is_optional_type(k))
Required(entries) == {i \in 1..Len(entries) : ~IsOptionalType(entries[i][1])}

\* required - coverage
MissingKeys(entries, coverage) == Required(entries) \ coverage

\* set(data.keys()) - set(new.keys())
WrongKeys(items, new) ==
    {items[n][1] : n \in {m \in 1..Len(items) :
                            ~\E r \in 1..Len(new) : PyEq(new[r][1], items[m][1])}}

\* the defaults of all the Optional keys, used or not
DefaultsOfAll(entries, coverage) ==
    {i \in 1..Len(entries) : entries[i][1].kind = "optional" /\ entries[i][1].has_default}

\* set(k for k in s if isinstance(k, Optional) and hasattr(k, "default")) - coverage
Defaults(entries, coverage) ==
    {i \in 1..Len(entries) :
        entries[i][1].kind = "optional" /\ entries[i][1].has_default} \ coverage

\* the order in which the set of unused defaults is iterated
DefaultOrder(entries, coverage, cx) ==
    IF cx.ord = "fwd" THEN AscSeq(Defaults(entries, coverage))
    ELSE Reverse(AscSeq(Defaults(entries, coverage)))

\* _invoke_with_optional_kwargs(default.default) if callable(default.default)
\* else default.default: the state after, with the call of a factory logged
InvokeDefault(k, st, cx) ==
    IF k.factory = "None" THEN st
    ELSE Logged(st, [ev |-> "make", dp |-> cx.dp, f |-> k.factory])

\* for default in defaults: new[default.key] = ..., in the order ds
RECURSIVE ApplyDefaults(_, _, _, _, _, _)
ApplyDefaults(entries, ds, n, new, st, cx) ==
    IF n > Len(ds) THEN Ok(new, st)
    ELSE ApplyDefaults(entries, ds, n + 1,
                       DictSet(new, entries[ds[n]][1].key, entries[ds[n]][1].default),
                       Logged(InvokeDefault(entries[ds[n]][1], st, cx),
                              [ev |-> "default", dp |-> cx.dp, sk |-> ds[n],
                               key |-> entries[ds[n]][1].key,
                               val |-> entries[ds[n]][1].default]),
                       cx)

\* the checks after the key scan and the fill of the defaults: out is what
\* left the with block
DictChecks(self, data, cx, new, coverage, out) ==
    IF out.exc THEN [ok |-> FALSE, val |-> PNone, err |-> out.err, st |-> out.st]
    ELSE IF MissingKeys(self.s.entries, coverage) # {}
    THEN Fail("SchemaMissingKeyError",
              <<[m |-> "missing", keys |-> MissingKeys(self.s.entries, coverage)]>>,
              <<Fmt(self.error, data)>>, out.st)
    ELSE IF ~self.ignore /\ Len(new) # Len(data.v)
    THEN Fail("SchemaWrongKeyError",
              <<[m |-> "wrong", keys |-> WrongKeys(data.v, new)]>>,
              <<Fmt(self.error, data)>>, out.st)
    ELSE Retype(data, ApplyDefaults(self.s.entries,
                                    DefaultOrder(self.s.entries, coverage, cx),
                                    1, new, out.st, cx))

\* a pass that writes its result into the mapping it was given
SameContainer(data) == [obj |-> "data", v |-> data.v]

\* new = type(data)(): a mapping of its own, empty; obj tells which object the
\* name new refers to, the one just built ("new") or the one passed in ("data")
NewContainer(data) == [obj |-> "new", v |-> <<>>]

\* the items the mapping passed in holds when the pass ends: every write of
\* the pass, new[nkey] = nvalue and new[default.key] = ..., goes to the object
\* that new refers to
Written(data, acc, r) ==
    IF acc.obj = "data" THEN (IF r.ok THEN r.val.v ELSE acc.new) ELSE data.v

\* the event that opens a pass: the schema keys, and the counts they start with
PassEvent(entries, st, cx) ==
    [ev |-> "pass", dp |-> cx.dp, entries |-> entries, mc |-> st.mc]

\* the event that closes a pass: what the scan left (scanned: the loop over the
\* items ran to its end), and what the pass returned or raised
DictDone(self, data, cx, body, r) ==
    [r EXCEPT !.st = Logged(r.st, [ev |-> "done", dp |-> cx.dp,
                                   entries |-> self.s.entries, ignore |-> self.ignore,
                                   error |-> self.error,
                                   data |-> data, scanned |-> ~body.exc,
                                   coverage |-> body.acc.coverage, new |-> body.acc.new,
                                   obj |-> body.acc.obj,
                                   after |-> Written(data, body.acc, r),
                                   ok |-> r.ok, val |-> r.val, err |-> r.err])]

\* the exit of the with block: body is what the loop over the items did
DictExit(self, data, cx, resets, body) ==
    DictDone(self, data, cx, body,
             DictChecks(self, data, cx, body.acc.new, body.acc.coverage,
                        RunResets(self.s.entries, resets, Len(resets),
                                  [exc |-> body.exc, err |-> body.err], body.acc.st, cx)))

\* the with block: r0 is the result of the mapping check
DictPass(self, data, cx, r0) ==
    IF ~r0.ok THEN r0
    ELSE DictExit(self, data, cx,
                  Resets(self.s.entries, SortedSkeys(self.s.entries)),
                  ItemLoop(self, SortedSkeys(self.s.entries), DataItems(data.v), 1, data,
                           [new |-> NewContainer(data).v, obj |-> NewContainer(data).obj,
                            coverage |-> {},
                            st |-> Logged(r0.st, PassEvent(self.s.entries, r0.st, cx))],
                           cx))

\* Schema.validate for a dict schema
DictValidate(self, data, st, cx) ==
    DictPass(self, data, cx, TypeValidate("dict", self.error, data, st))

\* Schema.validate
SchemaValidate(self, data, st, cx) ==
    CASE Priority(self.s) = ITERABLE ->
           IterableValidate(self, data, cx,
                            TypeValidate(self.s.ctype, self.error, data, st))
      [] Priority(self.s) = DICT -> DictValidate(self, data, st, cx)
      [] Priority(self.s) = TYPE -> TypeValidate(self.s.typ, self.error, data, st)
      [] Priority(self.s) = VALIDATOR ->
           Rewrap(self.error, data, ValidatorValidate(self.s, data, st, cx))
      [] Priority(self.s) = CALLABLE -> CallableValidate(self.s, self.error, data, st)
      [] OTHER -> ComparableValidate(self.s, self.error, data, st)

(***************************************************************************)
(* The schemas under validation and their inputs.                          *)
(***************************************************************************)
\* the mappings of at most MaxItems items with keys of K and values of V
Mappings(K, V) ==
    {PDict(q) : q \in {f \in UNION {[1..n -> K \X V] : n \in 0..MaxItems} :
                          \A a, b \in DOMAIN f : a # b => ~PyEq(f[a][1], f[b][1])}}

\* the lists of at most MaxItems elements of V
Lists(V) == {PList(q) : q \in UNION {[1..n -> V] : n \in 0..MaxItems}}

Atoms ==
    {PInt("0"), PInt("1"), PInt("2"), PInt("9"), PStr("x"), PStr("1"),
     PBool("True"), PBool("False"), PNone}

NonMappings == {PInt("1"), PList(<<PStr("x"), PInt("1")>>)}

OnlyOneXY(id) == Or(id, <<Lit(PStr("x")), Lit(PStr("y"))>>, TRUE)
OnlyOne12(id) == Or(id, <<Lit(PInt("1")), Lit(PInt("2"))>>, TRUE)

XYZ == {PStr("x"), PStr("y"), PStr("z")}
IntOrStr == {PInt("1"), PStr("s")}

Case(s, inputs) == [s |-> s, inputs |-> inputs]

One == {PInt("1")}
XY == {PStr("x"), PStr("y")}
XYInputs == Mappings(XY, IntOrStr) \cup Mappings(XYZ, One) \cup NonMappings

\* the values of the key "sub" of the nested case
Subs ==
    {PInt("1"), PDict(<<>>),
     PDict(<< <<PStr("x"), PInt("1")>> >>),
     PDict(<< <<PStr("x"), PInt("1")>>, <<PStr("y"), PInt("1")>> >>),
     PDict(<< <<PStr("y"), PStr("s")>>, <<PStr("x"), PInt("1")>> >>)}

SubInputs ==
    {PDict(<<>>)}
        \cup {PDict(<< <<PStr("sub"), v>> >>) : v \in Subs}
        \cup {PDict(<< <<PStr("x"), PInt("1")>>, <<PStr("sub"), v>> >>) : v \in Subs}

\* Or(only_one=True) as a dict key, plain and under Optional, Hook, Forbidden
OnlyOneCases ==
    <<
      Case(Schema(DictS(<< <<OnlyOneXY(1), TypeN("int")>> >>)), XYInputs),
      Case(SchemaOf(DictS(<< <<OnlyOneXY(1), TypeN("int")>> >>), "None", TRUE), XYInputs),
      Case(Schema(DictS(<< <<Optional(OnlyOneXY(1)), TypeN("int")>>,
                           <<Lit(PStr("k")), TypeN("int")>> >>)),
           Mappings({PStr("x"), PStr("y"), PStr("k")}, One)
               \cup Mappings({PStr("x"), PStr("k")}, IntOrStr) \cup NonMappings),
      Case(Schema(DictS(<< <<OnlyOneXY(1), TypeN("int")>>,
                           <<Optional(OnlyOne12(2)), TypeN("int")>> >>)),
           Mappings({PStr("x"), PInt("1"), PInt("2")}, One) \cup Mappings(XY, One)),
      Case(Schema(DictS(<< <<Forbidden(OnlyOneXY(1)), TypeN("str")>>,
                           <<TypeN("str"), TypeN("object")>> >>)),
           Mappings(XY, IntOrStr) \cup Mappings({PStr("z")}, One)),
      Case(Schema(DictS(<< <<Hook(OnlyOneXY(1), "raises"), TypeN("str")>>,
                           <<Optional(OnlyOneXY(2)), TypeN("object")>> >>)),
           Mappings(XY, IntOrStr)),
      Case(Schema(DictS(<< <<Lit(PStr("sub")),
                             DictS(<< <<Optional(OnlyOneXY(1)), TypeN("int")>> >>)>>,
                           <<Optional(Lit(PStr("x"))), TypeN("int")>> >>)),
           SubInputs)
    >>

\* Or(only_one=True) where no dictionary pass resets it
OnlyOneElsewhere ==
    <<
      Case(Schema(OnlyOneXY(1)), XYZ \cup One),
      Case(Schema(DictS(<< <<Lit(PStr("k")), OnlyOne12(1)>> >>)),
           Mappings({PStr("k")}, {PInt("1"), PInt("2"), PStr("s")})),
      Case(Schema(ListS(<<OnlyOne12(1)>>)),
           Lists({PInt("1"), PInt("2")}) \cup {PList(<<PStr("s")>>)})
    >>

Key5 == <<Lit(PStr("key")), Lit(PInt("5"))>>
Key25 == <<Lit(PStr("key2")), Lit(PInt("5"))>>
KeyNames == {PStr("key"), PStr("key2"), PStr("bad")}
FiveOrFour == {PInt("5"), PInt("4")}

\* required, unexpected and transformed keys
KeyCases ==
    <<
        Case(Schema(DictS(<<Key5>>)), Mappings(KeyNames, FiveOrFour) \cup NonMappings)
      ,
        Case(Schema(DictS(<<Key5, Key25>>)), Mappings(KeyNames, FiveOrFour))
      ,
        Case(SchemaOf(DictS(<<Key5, Key25>>), "None", TRUE), Mappings(KeyNames, FiveOrFour))
      ,
        Case(Schema(DictS(<<>>)), Mappings(KeyNames, FiveOrFour))
      ,
        Case(Schema(DictS(<< <<TypeN("str"), TypeN("int")>> >>)),
              Mappings({PStr("a"), PStr("b"), PInt("1")}, {PInt("1"), PStr("s")}))
      ,
        Case(Schema(DictS(<< <<Use("str"), Use("int")>> >>)),
              Mappings({PInt("1"), PStr("1"), PStr("2")}, {PStr("5"), PStr("s")}))
      ,
        Case(Schema(DictS(<< <<And(<<TypeN("int"), Use("str")>>), TypeN("int")>> >>)),
              Mappings({PInt("1"), PStr("1"), PStr("z")}, {PInt("5"), PStr("s")}))
      ,
        Case(Schema(DictS(<< <<TypeN("int"), TypeN("int")>>, Key5 >>)),
              Mappings({PInt("1"), PBool("True"), PStr("key")}, {PInt("5"), PBool("True")}))
    >>

OptA(d) == OptionalD(Lit(PStr("a")), d)
OptB(d) == OptionalD(Lit(PStr("b")), d)
ABC == {PStr("a"), PStr("b"), PStr("c")}
V1122 == {PInt("11"), PInt("22")}

\* Optional keys, with and without defaults
OptionalCases ==
    <<
        Case(Schema(DictS(<< <<OptA(PInt("1")), Lit(PInt("11"))>>,
                              <<OptB(PInt("2")), Lit(PInt("22"))>> >>)),
              Mappings(ABC, V1122) \cup NonMappings)
      ,
        Case(Schema(DictS(<< <<OptA(PInt("1")), Lit(PInt("11"))>>,
                              <<TypeN("str"), Lit(PInt("22"))>> >>)),
              Mappings(ABC, V1122))
      ,
        Case(Schema(DictS(<< <<TypeN("str"), Lit(PInt("22"))>>,
                              <<OptA(PInt("1")), Lit(PInt("11"))>> >>)),
              Mappings(ABC, V1122))
      ,
        Case(Schema(DictS(<< <<Lit(PStr("a")), Lit(PInt("1"))>>,
                              <<Optional(Lit(PStr("b"))), Lit(PInt("2"))>> >>)),
              Mappings(ABC, {PInt("1"), PInt("2")}))
      ,
        Case(Schema(DictS(<< <<OptionalF(Lit(PStr("a")), "make", PInt("1")), TypeN("int")>>,
                              <<Lit(PStr("b")), TypeN("int")>> >>)),
              Mappings(ABC, {PInt("1"), PStr("s")}))
      ,
        Case(Schema(DictS(<< <<OptionalD(Lit(PInt("1")), PInt("9")), TypeN("int")>>,
                              <<TypeN("str"), TypeN("int")>> >>)),
              Mappings({PInt("1"), PStr("1"), PBool("True")}, {PInt("5"), PStr("s")}))
      ,
        Case(Schema(DictS(<< <<OptA(PInt("1")), TypeN("int")>>,
                              <<OptA(PInt("2")), TypeN("int")>> >>)),
              Mappings({PStr("a"), PStr("b")}, {PInt("5"), PStr("s")}))
    >>

ForbB == Forbidden(Lit(PStr("b")))
OptBAny == <<Optional(Lit(PStr("b"))), TypeN("object")>>
BC == {PStr("b"), PStr("c")}
ByeOr1 == {PStr("bye"), PInt("1")}

\* Forbidden and Hook keys
HookCases ==
    <<
        Case(Schema(DictS(<< <<ForbB, TypeN("object")>> >>)), Mappings(BC, ByeOr1))
      ,
        Case(Schema(DictS(<< <<ForbB, TypeN("int")>> >>)),
              Mappings(BC, ByeOr1) \cup NonMappings)
      ,
        Case(Schema(DictS(<< <<ForbB, TypeN("int")>>, OptBAny >>)), Mappings(BC, ByeOr1))
      ,
        Case(Schema(DictS(<< OptBAny, <<ForbB, TypeN("object")>> >>)), Mappings(BC, ByeOr1))
      ,
        Case(Schema(DictS(<< <<ForbB, TypeN("int")>>,
                              <<Lit(PStr("b")), TypeN("str")>> >>)),
              Mappings(BC, ByeOr1))
      ,
        Case(Schema(DictS(<< <<Forbidden(TypeN("str")), TypeN("int")>>,
                              <<Lit(PStr("b")), TypeN("object")>>,
                              <<Optional(TypeN("str")), TypeN("str")>> >>)),
              Mappings(BC, ByeOr1))
      ,
        Case(Schema(DictS(<< <<Hook(Lit(PStr("b")), "noop"), TypeN("str")>>, OptBAny >>)),
              Mappings(BC, ByeOr1))
      ,
        Case(Schema(DictS(<< <<Hook(Lit(PStr("b")), "raises"), TypeN("str")>>, OptBAny >>)),
              Mappings(BC, ByeOr1))
      ,
        Case(Schema(DictS(<< <<ForbB, TypeN("int")>>,
                              <<Lit(PStr("a")), TypeN("object")>>,
                              <<Lit(PStr("c")), TypeN("object")>> >>)),
              Mappings(ABC, ByeOr1))
    >>

Mixed == Atoms \cup {PDict(<<>>), PList(<<>>), PDict(<< <<PStr("x"), PInt("1")>> >>)}

\* types, at the root and nested
TypeCases ==
    <<
        Case(Schema(TypeN("int")), Mixed)
      ,
        Case(Schema(TypeN("str")), Mixed)
      ,
        Case(Schema(TypeN("bool")), Mixed)
      ,
        Case(Schema(TypeN("object")), Mixed)
      ,
        Case(Schema(TypeN("dict")), Mixed)
      ,
        Case(Schema(TypeN("list")), Mixed)
      ,
        Case(Schema(ListS(<<TypeN("int")>>)),
              Lists({PInt("1"), PBool("True"), PBool("False"), PStr("x")}) \cup {PInt("1")})
      ,
        Case(Schema(DictS(<< <<Lit(PStr("k")), TypeN("int")>> >>)),
              Mappings({PStr("k")}, Atoms))
      ,
        Case(Schema(DictS(<< <<TypeN("int"), TypeN("object")>> >>)),
              Mappings({PInt("1"), PBool("True"), PBool("False")}, {PInt("1")}))
      ,
        Case(Schema(And(<<TypeN("int")>>)), Mixed)
      ,
        Case(Schema(Or(1, <<TypeN("int"), TypeN("dict")>>, FALSE)), Mixed)
    >>

\* And chains
AndCases ==
    <<
        Case(Schema(And(<<TypeN("int"), Fn("in_range")>>)), Mixed)
      ,
        Case(Schema(And(<<Use("int"), Fn("in_range")>>)), Mixed)
      ,
        Case(Schema(And(<<Use("str"), Use("int")>>)), Mixed)
      ,
        Case(Schema(And(<<Use("int"), Use("str")>>)), Mixed)
      ,
        Case(Schema(And(<<Fn("in_range"), Use("str"), Lit(PStr("1"))>>)), Mixed)
      ,
        Case(Schema(And(<<OnlyOne12(1), Use("str")>>)), Mixed)
      ,
        Case(Schema(And(<<>>)), Mixed)
    >>

StrThenFive == And(<<Use("str"), Lit(PInt("5"))>>)

\* Or, with and without only_one, with and without an error template
OrCases ==
    <<
        Case(Schema(Or(1, <<Use("int"), Use("str")>>, FALSE)), Mixed)
      ,
        Case(Schema(Or(1, <<StrThenFive, TypeN("int")>>, FALSE)), Mixed)
      ,
        Case(Schema(Or(1, <<>>, FALSE)), Mixed)
      ,
        Case(Schema(Or(1, <<Lit(PInt("1")), Fn("in_range"), TypeN("str")>>, FALSE)), Mixed)
      ,
        Case(Schema(Or(1, <<Or(2, <<TypeN("int"), TypeN("str")>>, FALSE), TypeN("dict")>>,
                       FALSE)),
             Mixed)
      ,
        Case(Schema(OrE(1, <<TypeN("int"), Fn("in_range")>>, FALSE, "bad {}")), Mixed)
      ,
        Case(Schema(Or(1, <<TypeN("int"), TypeN("object")>>, TRUE)), Mixed)
      ,
        Case(Schema(Or(1, <<Lit(PInt("1")), TypeN("int"), Fn("in_range")>>, TRUE)), Mixed)
    >>

\* the lists, tuples and instances of a list subclass of at most MaxItems
\* elements of V
Containers(V) ==
    {[t |-> c, v |-> q] : c \in {"list", "tuple", "sublist"},
                          q \in UNION {[1..n -> V] : n \in 0..MaxItems}}

OneFiveS == {PInt("1"), PStr("5"), PStr("s"), PBool("True")}

\* iterable schemas
IterCases ==
    <<
        Case(Schema(ListS(<<Lit(PInt("1")), Use("int")>>)),
             Containers(OneFiveS) \cup NonMappings \cup {PDict(<<>>)})
      ,
        Case(Schema(TupleS(<<TypeN("int"), And(<<TypeN("str"), Use("int")>>)>>)),
             Containers(OneFiveS) \cup {PNone})
      ,
        Case(Schema(ListS(<<>>)), Containers({PInt("1")}) \cup {PInt("1")})
      ,
        Case(Schema(ListS(<<ListS(<<TypeN("int")>>), TypeN("str")>>)),
             Containers({PStr("s"), PList(<<>>), PList(<<PInt("1")>>), PSubList(<<PStr("s")>>),
                         PTuple(<<PInt("1")>>)}))
    >>

AIsA == DictS(<< <<Lit(PStr("a")), Lit(PStr("a"))>> >>)
DataA == PDict(<< <<PStr("a"), PStr("a")>> >>)
DataABad == PDict(<< <<PStr("a"), PStr("a")>>, <<PStr("bad"), PStr("b")>> >>)
DataBad == PDict(<< <<PStr("bad"), PStr("b")>> >>)
Nested == {PInt("5"), DataA, DataABad, DataBad}
Flagged(s) == SchemaOf(s, "None", TRUE)

\* ignore_extra_keys=True on the outermost schema
IgnoreCases ==
    <<
        Case(Flagged(DictS(<< Key5, <<Lit(PStr("dk")), AIsA>> >>)),
             Mappings({PStr("key"), PStr("dk"), PStr("bad")}, Nested)
                 \cup {PDict(<< <<PStr("key"), PInt("5")>>, <<PStr("bad"), PStr("b")>>,
                               <<PStr("dk"), DataABad>> >>)})
      ,
        Case(Flagged(ListS(<<AIsA>>)), Lists(Nested))
      ,
        Case(Flagged(And(<<AIsA>>)), Nested)
      ,
        Case(Flagged(Or(1, <<AIsA, TypeN("int")>>, FALSE)), Nested)
      ,
        Case(Flagged(DictS(<< <<Lit(PStr("dk")), And(<<AIsA>>)>> >>)),
             Mappings({PStr("dk"), PStr("bad")}, Nested))
      ,
        Case(Flagged(DictS(<< <<Lit(PStr("dk")), Schema(AIsA)>> >>)),
             Mappings({PStr("dk"), PStr("bad")}, Nested))
      ,
        Case(Flagged(DictS(<< <<Forbidden(Lit(PStr("dk"))), AIsA>>,
                              <<Optional(Lit(PStr("dk"))), TypeN("object")>> >>)),
             Mappings({PStr("dk"), PStr("bad")}, Nested))
      ,
        Case(Flagged(DictS(<< <<Use("str"), TypeN("int")>>,
                              <<OptionalD(Lit(PInt("2")), PInt("9")), TypeN("str")>> >>)),
             Mappings({PInt("1"), PStr("1"), PInt("2")}, {PInt("5"), PStr("s")}))
      ,
        Case(Flagged(DictS(<< <<Lit(PStr("dk")), ListS(<<AIsA>>)>> >>)),
             {PDict(<< <<PStr("dk"), l>> >>) : l \in Lists(Nested)}
                 \cup {PDict(<< <<PStr("bad"), PInt("5")>>, <<PStr("dk"), PList(<<DataABad>>)>> >>)})
    >>

FooBar1 == {PStr("foo"), PStr("bar"), PInt("1")}
KFoo(e) == <<Lit(PStr("k")), Regex("^foo", e)>>

\* error templates, on the outermost schema and on validators inside
ErrorCases ==
    <<
        Case(Schema(DictS(<<KFoo("bad {}")>>)), Mappings({PStr("k")}, FooBar1))
      ,
        Case(Schema(DictS(<<KFoo("None")>>)), Mappings({PStr("k")}, FooBar1))
      ,
        Case(SchemaOf(DictS(<<KFoo("None")>>), "top", FALSE),
             Mappings({PStr("k"), PStr("z")}, FooBar1) \cup NonMappings)
      ,
        Case(Schema(DictS(<< <<Lit(PStr("k")), UseE("int", "bad {}")>> >>)),
             Mappings({PStr("k")}, {PStr("5"), PStr("s"), PStr("x")}))
      ,
        Case(SchemaOf(DictS(<< <<ForbB, TypeN("object")>> >>), "bad {}", FALSE),
             Mappings(BC, ByeOr1))
      ,
        Case(SchemaOf(DictS(<< <<ForbB, TypeN("object")>> >>), "top", FALSE),
             Mappings(BC, ByeOr1))
      ,
        Case(SchemaOf(DictS(<<Key5, Key25>>), "bad {}", FALSE), Mappings(KeyNames, FiveOrFour))
      ,
        Case(Schema(AndE(<<TypeN("int"), Fn("in_range")>>, "top")), Mixed)
      ,
        Case(SchemaOf(ListS(<<TypeN("int"), Regex("^foo", "None")>>), "bad {}", FALSE),
             Lists(FooBar1) \cup {PInt("1")})
      ,
        Case(Schema(DictS(<< <<Regex("^foo", "None"), TypeN("str")>> >>)),
             Mappings({PStr("fookey"), PStr("bar"), PInt("1")}, {PStr("s"), PInt("1")}))
      ,
        Case(Schema(Regex("^foo", "top")), Mixed \cup {PStr("foo")})
      ,
        Case(SchemaOf(DictS(<< <<Lit(PStr("k")), DictS(<<KFoo("bad {}")>>)>> >>), "top", FALSE),
             {PDict(<< <<PStr("k"), d>> >>) : d \in Mappings({PStr("k")}, FooBar1)})
    >>

\* the parts of a schema node
Parts(s) ==
    CASE s.kind = "dict" ->
           {s.entries[n][1] : n \in DOMAIN s.entries} \cup {s.entries[n][2] : n \in DOMAIN s.entries}
      [] s.kind = "list" -> {s.elems[n] : n \in DOMAIN s.elems}
      [] s.kind \in {"and", "or"} -> {s.args[n] : n \in DOMAIN s.args}
      [] s.kind \in {"schema", "optional", "hook"} -> {s.s}
      [] OTHER -> {}

\* the tree holds an Or object, the only kind of node with a mutable field
RECURSIVE HoldsState(_)
HoldsState(s) == s.kind = "or" \/ \E p \in Parts(s) : HoldsState(p)

\* mappings in which both only-one keys of a schema see two of their names
BothTwice ==
    {PDict(<< <<PStr("x"), PInt("1")>>, <<PStr("y"), PInt("1")>>,
              <<PInt("1"), PInt("1")>>, <<PInt("2"), PInt("1")>> >>),
     PDict(<< <<PInt("1"), PInt("1")>>, <<PStr("x"), PInt("1")>>,
              <<PInt("2"), PStr("s")>>, <<PStr("y"), PInt("1")>> >>),
     PDict(<< <<PStr("x"), PInt("1")>>, <<PInt("1"), PInt("1")>>,
              <<PInt("2"), PInt("1")>> >>)}

\* only-one keys next to a key that takes what they refuse
PrecedenceCases ==
    <<
        Case(Schema(DictS(<< <<OnlyOneXY(1), TypeN("int")>>,
                              <<TypeN("str"), TypeN("int")>> >>)),
             Mappings(XY, IntOrStr))
      ,
        Case(Schema(DictS(<< <<OnlyOneXY(1), TypeN("int")>>,
                              <<Optional(OnlyOne12(2)), TypeN("int")>> >>)),
             BothTwice)
    >>

\* Hooks of several kinds next to the keys that take what they let through
MoreHooks ==
    <<
        Case(SchemaOf(DictS(<< <<Hook(Use("str"), "noop"), TypeN("int")>>,
                                <<TypeN("int"), TypeN("int")>>,
                                <<Optional(TypeN("str")), TypeN("object")>> >>),
                      "bad {}", FALSE),
             Mappings({PInt("1"), PStr("b")}, ByeOr1))
      ,
        Case(Schema(DictS(<< <<Hook(Lit(PStr("b")), "noop"), TypeN("object")>>,
                              <<Forbidden(TypeN("str")), TypeN("int")>>,
                              <<Lit(PStr("b")), TypeN("object")>>,
                              <<Optional(Lit(PStr("c"))), TypeN("str")>> >>)),
             Mappings(BC, ByeOr1))
    >>

\* keys of every kind and marker, inserted against their priority, and keys
\* of equal priority in both insertion orders
OrderCases ==
    <<
        Case(Schema(DictS(<< <<Optional(TypeN("int")), TypeN("object")>>,
                              <<TypeN("str"), TypeN("object")>>,
                              <<Hook(TypeN("int"), "noop"), TypeN("int")>>,
                              <<And(<<Lit(PInt("2"))>>), Lit(PStr("s"))>>,
                              <<Optional(Fn("in_range")), TypeN("int")>>,
                              <<Fn("in_range"), TypeN("str")>>,
                              <<Optional(Lit(PInt("2"))), TypeN("int")>>,
                              <<Lit(PInt("1")), TypeN("int")>>,
                              <<Hook(Lit(PInt("1")), "noop"), TypeN("object")>> >>)),
             Mappings({PInt("1"), PInt("2"), PInt("0"), PStr("x")}, {PInt("5"), PStr("s")}))
      ,
        Case(Schema(DictS(<< <<TypeN("int"), TypeN("str")>>,
                              <<TypeN("object"), TypeN("int")>> >>)),
             Mappings({PInt("1"), PStr("x")}, {PInt("5"), PStr("s")}))
      ,
        Case(Schema(DictS(<< <<TypeN("object"), TypeN("int")>>,
                              <<TypeN("int"), TypeN("str")>> >>)),
             Mappings({PInt("1"), PStr("x")}, {PInt("5"), PStr("s")}))
    >>

\* the values of the items of the nesting case: flat and mappings, good and bad
FlatOrNested ==
    {PInt("1"), PStr("s"), PDict(<< <<PStr("x"), PInt("1")>> >>),
     PDict(<< <<PStr("x"), PStr("s")>> >>)}

\* a schema with a mapping-valued key, a flat key and a key that takes both
NestingCases ==
    <<
        Case(Schema(DictS(<< <<Lit(PStr("a")), DictS(<< <<Lit(PStr("x")), TypeN("int")>> >>)>>,
                              <<Lit(PStr("b")), TypeN("int")>>,
                              <<Hook(Lit(PStr("c")), "noop"), TypeN("object")>>,
                              <<Optional(Lit(PStr("c"))), Fn("in_range")>> >>)),
             Mappings(ABC, FlatOrNested))
    >>

KSub(v) == DictS(<< <<Lit(PStr("k")), v>> >>)
KData == {PDict(<< <<PStr("k"), x>> >>) : x \in {PInt("1"), PStr("x")}}
KKData == {PDict(<< <<PStr("k"), d>> >>) : d \in KData} \cup KData

\* callables and validators that raise, a validation error or another
\* exception, at the root and under dict keys, lists and combinators
RaisingCases ==
    <<
        Case(Schema(Use("se")), {PStr("x")})
      ,
        Case(SchemaOf(Use("se"), "second error", FALSE), {PStr("x")})
      ,
        Case(Schema(And(<<TypeN("str"), Fn("se")>>)), {PStr("x"), PInt("1")})
      ,
        Case(Schema(AndE(<<TypeN("str"), Fn("se")>>, "bad {}")), {PStr("x"), PInt("1")})
      ,
        Case(Schema(Fn("raises")), {PStr("x")})
      ,
        Case(SchemaOf(UseE("raises", "bad {}"), "top", FALSE), {PStr("x")})
      ,
        Case(SchemaOf(BadValidator, "bad {}", FALSE), {PStr("x")})
      ,
        Case(Schema(Fn("in_range")), Atoms)
      ,
        Case(Schema(KSub(Fn("se"))), KData)
      ,
        Case(SchemaOf(KSub(KSub(Use("se"))), "top", FALSE), KKData)
      ,
        Case(Schema(KSub(KSub(And(<<Use("int"), BadValidator>>)))), KKData)
      ,
        Case(Schema(DictS(<< <<Fn("raises"), TypeN("int")>>,
                              <<Optional(Use("int")), ListS(<<Use("raises"), Lit(PInt("1"))>>)>> >>)),
             {PDict(<< <<PStr(k), PList(<<x>>)>> >>) : k \in {"1", "x"}, x \in {PInt("1"), PStr("x")}})
      ,
        Case(Schema(Or(1, <<Fn("se"), BadValidator, Use("raises")>>, FALSE)), {PStr("x")})
    >>

\* the cases, one group after the other
Cases ==
    OnlyOneCases \o OnlyOneElsewhere \o KeyCases \o OptionalCases \o HookCases
        \o TypeCases \o AndCases \o OrCases \o IterCases \o IgnoreCases \o ErrorCases
        \o PrecedenceCases \o MoreHooks \o OrderCases \o NestingCases \o RaisingCases

CaseAt(i) == Cases[i]

\* the ids of the Or objects of the cases
OrIds == {1, 2}

(***************************************************************************)
(* The state machine: one schema object, validated again and again.        *)
(***************************************************************************)
NoCall == [called |-> FALSE]
NoRep == [some |-> FALSE]

\* how a call ended: "ok", or the class of its error ("none": no call yet)
How(l) == IF ~l.called THEN "none" ELSE IF l.ok THEN "ok" ELSE l.err.cls

Outcome(r) == [ok |-> r.ok, val |-> r.val, err |-> r.err]

\* the schemas whose result depends on the order in which the set of unused
\* defaults is iterated have more than one default
ManyDefaults(s) ==
    s.s.kind = "dict"
    /\ Cardinality({i \in 1..Len(s.s.entries) :
                      s.s.entries[i][1].kind = "optional"
                      /\ s.s.entries[i][1].has_default}) > 1

Init ==
    /\ sid \in DOMAIN Cases
    /\ ord \in {"fwd", "rev"}
    /\ ord = "rev" => ManyDefaults(CaseAt(sid).s)
    /\ mc = [id \in OrIds |-> 0]
    /\ calls = 0
    /\ last = NoCall
    /\ rep = NoRep

\* the state a top-level call starts in: the counts as they are, nothing
\* logged, nothing raised
Fresh(m) == [mc |-> m, log |-> <<>>, errs |-> <<>>]

\* what a call leaves behind: r is the result of schema.validate(d)
Returned(d, r) ==
    /\ mc' = r.st.mc
    /\ last' = [called |-> TRUE, data |-> d, ok |-> r.ok, val |-> r.val,
                err |-> r.err, log |-> r.st.log, errs |-> r.st.errs, mc0 |-> mc,
                prev |-> How(last)]
    /\ rep' = IF last.called /\ last.data = d
              THEN [some |-> TRUE, first |-> [ok |-> last.ok, val |-> last.val,
                                              err |-> last.err],
                    second |-> Outcome(r)]
              ELSE NoRep

\* schema.validate(d).  A tree without an Or object holds no state between
\* calls: its first call shows all it does
Validate(d) ==
    /\ calls < MaxCalls
    /\ calls = 0 \/ HoldsState(CaseAt(sid).s)
    /\ Returned(d, SchemaValidate(CaseAt(sid).s, d, Fresh(mc), [dp |-> 0, ord |-> ord]))
    /\ calls' = calls + 1
    /\ UNCHANGED <<sid, ord>>

Next == \E d \in CaseAt(sid).inputs : Validate(d)

Spec == Init /\ [][Next]_vars

(***************************************************************************)
(* The properties.  Events(ev) are the places of the events ev in the log  *)
(* of the last call.                                                       *)
(***************************************************************************)
Events(ev) == {n \in DOMAIN last.log : last.log[n].ev = ev}

\* a schema key that is an Or(only_one=True), directly or wrapped in Optional
OnlyOneKey(skey) ==
    \/ skey.kind = "or" /\ skey.only_one
    \/ skey.kind = "optional" /\ skey.s.kind = "or" /\ skey.s.only_one

OrOfKey(skey) == IF skey.kind = "or" THEN skey ELSE skey.s

\* the keys of a mapping
KeysOf(d) == {d.v[n][1] : n \in DOMAIN d.v}

\* C1: in every call of any sequence of calls, every dictionary pass starts
\* with match_count = 0 for each Or(only_one=True) that is one of its schema
\* keys, directly or wrapped in Optional
C1_CountZeroAtPass ==
    last.called =>
        \A n \in Events("pass") :
            \A k \in DOMAIN last.log[n].entries :
                OnlyOneKey(last.log[n].entries[k][1]) =>
                    last.log[n].mc[OrOfKey(last.log[n].entries[k][1]).id] = 0

\* a pass over an Or(only_one=True) key wrapped in Optional, in the call right
\* after a call that ended with the only-one error
C1_Witness ==
    /\ last.called
    /\ last.prev = "SchemaOnlyOneAllowedError"
    /\ \E n \in Events("pass") :
           \E k \in DOMAIN last.log[n].entries :
               /\ last.log[n].entries[k][1].kind = "optional"
               /\ OnlyOneKey(last.log[n].entries[k][1])
    /\ Events("bind") # {}

\* the ids of the Or(only_one=True) objects of a tree
RECURSIVE OnlyOneIds(_)
OnlyOneIds(s) ==
    (IF s.kind = "or" /\ s.only_one THEN {s.id} ELSE {})
        \cup UNION {OnlyOneIds(p) : p \in Parts(s)}

\* C2: two successive top-level calls with the same data give the same
\* outcome, for every schema tree, and between two top-level calls the count
\* of every Or(only_one=True) is 0
C2_Reusable ==
    /\ rep.some => rep.first = rep.second
    /\ \A id \in OnlyOneIds(CaseAt(sid).s) : mc[id] = 0

\* the dict schema whose one key is Or("x", "y", only_one=True)
IsXYCase == CaseAt(sid).s.s = DictS(<< <<OnlyOneXY(1), TypeN("int")>> >>)

\* the mapping holds exactly one of "x" and "y", with a valid value, and (when
\* extra keys are not ignored) nothing else
ExactlyOneXY(d) ==
    /\ IsMapping(d)
    /\ Cardinality(KeysOf(d) \cap XY) = 1
    /\ \A n \in DOMAIN d.v : d.v[n][1] \in XY => d.v[n][2].t = "int"
    /\ CaseAt(sid).s.ignore \/ KeysOf(d) \subseteq XY

\* C3: in every call of any sequence of calls on {Or("x", "y", only_one=True): int},
\* with or without ignore_extra_keys, a mapping with both "x" and "y" fails, and a
\* mapping with exactly one of them and a valid value succeeds
C3_OnlyOneExclusive ==
    last.called /\ IsXYCase =>
        /\ IsMapping(last.data) /\ XY \subseteq KeysOf(last.data) => ~last.ok
        /\ ExactlyOneXY(last.data) => last.ok

\* a mapping with one of the keys succeeds right after the call that failed
\* on a mapping with both
C3_Witness ==
    /\ last.called /\ IsXYCase
    /\ last.prev = "SchemaOnlyOneAllowedError"
    /\ ExactlyOneXY(last.data) /\ last.ok
    /\ calls = MaxCalls

\* the pass event of the pass that the "done" event at n closes, and the events
\* ev of that pass
PassStart(n) ==
    CHOOSE m \in Events("pass") :
        /\ m < n /\ last.log[m].dp = last.log[n].dp
        /\ \A k \in Events("pass") : k < n /\ last.log[k].dp = last.log[n].dp => k <= m

PassEvents(n, ev) ==
    {m \in Events(ev) : PassStart(n) < m /\ m < n /\ last.log[m].dp = last.log[n].dp}

\* the pass closed by e ended with an error of class cls
Ended(e, cls) == ~e.ok /\ e.err.cls = cls

\* the schema keys that are neither Optional- nor Hook-marked, and those of
\* them that no data item covered
RequiredKeys(e) ==
    {k \in DOMAIN e.entries : e.entries[k][1].kind \notin {"optional", "hook"}}

Uncovered(e) == RequiredKeys(e) \ e.coverage

\* the missing-key error is raised if and only if a required key is uncovered,
\* and it lists the uncovered required keys
MissingRule(e) ==
    /\ Ended(e, "SchemaMissingKeyError") <=> Uncovered(e) # {}
    /\ Ended(e, "SchemaMissingKeyError") => e.err.autos[1].keys = Uncovered(e)

\* C4 (amended): a dict pass whose key scan completes, and whose exit raises
\* no only-one error, fails with the missing-key error if and only if some
\* schema key that is neither Optional- nor Hook-marked is uncovered, and the
\* error lists exactly the uncovered required keys
C4_MissingKeys ==
    last.called =>
        \A n \in Events("done") :
            last.log[n].scanned /\ ~Ended(last.log[n], "SchemaOnlyOneAllowedError")
                => MissingRule(last.log[n])

\* C4 as stated: the same of every pass whose key scan completes
C4_Original ==
    last.called =>
        \A n \in Events("done") : last.log[n].scanned => MissingRule(last.log[n])

\* a pass with a Hook key that ends with the missing-key error for two keys
C4_Witness ==
    /\ last.called
    /\ \E n \in Events("done") :
           /\ last.log[n].scanned
           /\ Ended(last.log[n], "SchemaMissingKeyError")
           /\ Cardinality(Uncovered(last.log[n])) = 2
           /\ \E k \in DOMAIN last.log[n].entries : last.log[n].entries[k][1].kind = "hook"

\* the data keys a pass bound, and the ones no schema key bound
BoundKeys(n) == {last.log[m].key : m \in PassEvents(n, "bind")}
Unmatched(n) == KeysOf(last.log[n].data) \ BoundKeys(n)

\* C5: a dict pass without ignore_extra_keys whose required keys are all
\* covered fails with the wrong-key error whenever the result has not as many
\* entries as the data has items, and the error lists exactly the data keys
\* that no schema key matched (passes that end with the only-one error set
\* aside)
C5_WrongKeys ==
    last.called =>
        \A n \in Events("done") :
            /\ last.log[n].scanned /\ ~last.log[n].ignore
            /\ Uncovered(last.log[n]) = {}
            /\ ~Ended(last.log[n], "SchemaOnlyOneAllowedError")
            /\ Len(last.log[n].new) # Len(last.log[n].data.v)
            => /\ Ended(last.log[n], "SchemaWrongKeyError")
               /\ last.log[n].err.autos[1].keys = Unmatched(n)

\* the Optional keys with a default, and those of them the data left unused
DefaultKeys(e) ==
    {k \in DOMAIN e.entries :
        e.entries[k][1].kind = "optional" /\ e.entries[k][1].has_default}

Unused(e) == DefaultKeys(e) \ e.coverage

\* the mapping d holds k -> x
Has(d, k, x) == \E i \in DOMAIN d.v : d.v[i][1] = k /\ d.v[i][2] = x

\* no other unused default goes under the key string of k
SoleKey(e, k) ==
    \A j \in Unused(e) \ {k} : e.entries[j][1].key # e.entries[k][1].key

\* no unused default goes under the key
NoDefaultOn(e, key) == \A j \in Unused(e) : e.entries[j][1].key # key

\* the fill of the defaults by the pass that the "done" event at n closes;
\* apart: the cases where two writes go under one key are set aside
DefaultFill(n, apart) ==
    LET e == last.log[n]
    IN  /\ e.ok =>
              /\ \A k \in Unused(e) :
                     (apart => SoleKey(e, k))
                         => Has(e.val, e.entries[k][1].key, e.entries[k][1].default)
              /\ \A m \in PassEvents(n, "bind") :
                     /\ e.entries[last.log[m].sk][1].kind = "optional"
                     /\ (apart => NoDefaultOn(e, last.log[m].nkey))
                     => Has(e.val, last.log[m].nkey, last.log[m].nvalue)
              /\ Cardinality(PassEvents(n, "make"))
                     = Cardinality({k \in Unused(e) : e.entries[k][1].factory # "None"})
        /\ ~e.ok => PassEvents(n, "default") = {} /\ PassEvents(n, "make") = {}

\* C6 (amended): on a successful dict pass the result holds key -> default for
\* every unused Optional with a default, unless another unused default goes
\* under the same key string; a callable default is invoked once per fill; the
\* item bound by a covered Optional keeps its validated value, unless an
\* unused default goes under its key; a failed pass injects no default
C6_DefaultFill ==
    last.called => \A n \in Events("done") : DefaultFill(n, TRUE)

\* C6 as stated: the same without the exceptions
C6_Original ==
    last.called => \A n \in Events("done") : DefaultFill(n, FALSE)

\* a successful pass that binds one Optional with a default and fills the
\* default of another
C6_Witness ==
    /\ last.called
    /\ \E n \in Events("done") :
           /\ last.log[n].ok
           /\ Unused(last.log[n]) # {}
           /\ DefaultKeys(last.log[n]) \cap last.log[n].coverage # {}

\* the schema key k is an Optional around a literal that accepts the data key
OptLitFor(entries, k, key) ==
    /\ entries[k][1].kind = "optional" /\ entries[k][1].s.kind = "lit"
    /\ PyEq(entries[k][1].s.v, key)

\* the schema key k is a type that accepts the data key
TypeFor(entries, k, key) ==
    entries[k][1].kind = "type" /\ TypeAccepts(key, entries[k][1].typ)

\* C7: a data key that an Optional(literal) key and a type key both accept is
\* validated against the Optional's value-schema (bound by it, or the pass
\* aborts on it) and covers the Optional, in either insertion order; when no
\* data key is accepted by the Optional's literal, the Optional stays
\* uncovered and a successful pass injects its default
C7_OptionalBeforeType ==
    last.called =>
        \A n \in Events("done") :
            /\ \A m \in PassEvents(n, "bind") \cup PassEvents(n, "abort") :
                   /\ \E k \in DOMAIN last.log[n].entries :
                          OptLitFor(last.log[n].entries, k, last.log[m].key)
                   /\ \E k \in DOMAIN last.log[n].entries :
                          TypeFor(last.log[n].entries, k, last.log[m].key)
                   => /\ OptLitFor(last.log[n].entries, last.log[m].sk, last.log[m].key)
                      /\ last.log[m].ev = "bind" => last.log[m].sk \in last.log[n].coverage
            /\ \A k \in DefaultKeys(last.log[n]) :
                   /\ \E j \in DOMAIN last.log[n].entries : last.log[n].entries[j][1].kind = "type"
                   /\ \A key \in KeysOf(last.log[n].data) :
                          ~OptLitFor(last.log[n].entries, k, key)
                   => /\ k \notin last.log[n].coverage
                      /\ last.log[n].ok => Has(last.log[n].val, last.log[n].entries[k][1].key,
                                               last.log[n].entries[k][1].default)

\* a data key bound by an Optional(literal) key that was inserted after a type
\* key accepting the same data key
C7_Witness ==
    /\ last.called
    /\ \E n \in Events("done") :
           \E m \in PassEvents(n, "bind") :
               /\ OptLitFor(last.log[n].entries, last.log[m].sk, last.log[m].key)
               /\ \E k \in 1..(last.log[m].sk - 1) :
                      TypeFor(last.log[n].entries, k, last.log[m].key)

\* s.validate(x) succeeds (on a schema object that no call has used)
Accepts(s, x) ==
    SchemaValidate(SchemaOf(s, "None", FALSE), x,
                   Fresh([id \in OrIds |-> 0]), [dp |-> 0, ord |-> ord]).ok

ForbiddenKeys(e) ==
    {k \in DOMAIN e.entries :
        e.entries[k][1].kind = "hook" /\ e.entries[k][1].handler = "forbid"}

\* the Forbidden keys whose key-schema accepts the key of the item, and those
\* of them whose value-schema accepts its value
KeyForbidden(e, item) == {k \in ForbiddenKeys(e) : Accepts(e.entries[k][1].s, item[1])}
BothForbidden(e, item) == {k \in KeyForbidden(e, item) : Accepts(e.entries[k][2], item[2])}

\* the schema keys without a Hook whose key-schema accepts the key of the item
Takers(e, item) ==
    {k \in DOMAIN e.entries :
        e.entries[k][1].kind # "hook" /\ Accepts(e.entries[k][1], item[1])}

\* C8: a pass ends with the forbidden-key error only if a Forbidden key accepts
\* both the key and the value of some item; an item whose key a Forbidden
\* accepts but whose value it does not goes on to the remaining schema keys:
\* one that accepts its key takes it (binds it, or aborts on its value), and
\* without one the item is reported as a wrong key
C8_ForbiddenReverse ==
    last.called =>
        \A n \in Events("done") :
            /\ Ended(last.log[n], "SchemaForbiddenKeyError")
                   => \E i \in DOMAIN last.log[n].data.v :
                          BothForbidden(last.log[n], last.log[n].data.v[i]) # {}
            /\ /\ Len(last.log[n].data.v) = 1
               /\ KeyForbidden(last.log[n], last.log[n].data.v[1]) # {}
               /\ BothForbidden(last.log[n], last.log[n].data.v[1]) = {}
               => /\ ~Ended(last.log[n], "SchemaForbiddenKeyError")
                  /\ Takers(last.log[n], last.log[n].data.v[1]) # {}
                         => \E m \in PassEvents(n, "bind") \cup PassEvents(n, "abort") :
                                last.log[m].sk \in Takers(last.log[n], last.log[n].data.v[1])
                  /\ Takers(last.log[n], last.log[n].data.v[1]) = {}
                         => /\ last.log[n].scanned
                            /\ ~last.log[n].ignore /\ Uncovered(last.log[n]) = {}
                                   => /\ Ended(last.log[n], "SchemaWrongKeyError")
                                      /\ last.log[n].data.v[1][1]
                                             \in last.log[n].err.autos[1].keys

\* an item that a Forbidden key skipped on its value and a later key bound
C8_Witness ==
    /\ last.called
    /\ \E n \in Events("done") :
           /\ Len(last.log[n].data.v) = 1
           /\ KeyForbidden(last.log[n], last.log[n].data.v[1]) # {}
           /\ BothForbidden(last.log[n], last.log[n].data.v[1]) = {}
           /\ PassEvents(n, "bind") # {}
           /\ last.log[n].ok

\* d has the shape that the schema s, with int nested in it, asks for
Fits(s, d) ==
    CASE s = ListS(<<TypeN("int")>>) -> d.t = "list"
      [] s = DictS(<< <<Lit(PStr("k")), TypeN("int")>> >>) ->
           IsMapping(d) /\ KeysOf(d) = {PStr("k")}
      [] s = DictS(<< <<TypeN("int"), TypeN("object")>> >>) -> IsMapping(d) /\ d.v # <<>>
      [] s = And(<<TypeN("int")>>) -> TRUE
      [] s = Or(1, <<TypeN("int"), TypeN("dict")>>, FALSE) -> ~IsMapping(d)
      [] OTHER -> FALSE

\* the values of such a d that s checks against the type int
IntLeaves(s, d) ==
    CASE s = ListS(<<TypeN("int")>>) -> {d.v[i] : i \in DOMAIN d.v}
      [] s = DictS(<< <<Lit(PStr("k")), TypeN("int")>> >>) -> {d.v[i][2] : i \in DOMAIN d.v}
      [] s = DictS(<< <<TypeN("int"), TypeN("object")>> >>) -> KeysOf(d)
      [] OTHER -> {d}

\* C9: the type schema int rejects True and False with the type error and
\* accepts every other int unchanged, every other type schema T accepts every
\* instance of T unchanged; the same where int is nested: as a list element, a
\* dict value, a dict key, an argument of And and of Or
C9_TypeCarveOut ==
    last.called =>
        /\ CaseAt(sid).s.s.kind = "type" =>
              /\ CaseAt(sid).s.s.typ = "int" /\ last.data.t = "bool"
                     => Ended(last, "SchemaUnexpectedTypeError")
              /\ /\ IsInstance(last.data, CaseAt(sid).s.s.typ)
                 /\ ~(CaseAt(sid).s.s.typ = "int" /\ last.data.t = "bool")
                 => last.ok /\ last.val = last.data
        /\ Fits(CaseAt(sid).s.s, last.data) =>
              /\ (\E x \in IntLeaves(CaseAt(sid).s.s, last.data) : x.t = "bool")
                     => ~last.ok
              /\ (\A x \in IntLeaves(CaseAt(sid).s.s, last.data) : x.t = "int")
                     => last.ok /\ last.val = last.data

\* a list with an int and a bool, refused by [int]
C9_Witness ==
    /\ last.called /\ ~last.ok
    /\ CaseAt(sid).s.s = ListS(<<TypeN("int")>>)
    /\ last.data.t = "list"
    /\ \E i, j \in DOMAIN last.data.v :
           last.data.v[i].t = "int" /\ last.data.v[j].t = "bool"

\* g.validate(r) for the result r of the sub-schema before g
Then(r, g) ==
    IF r.ok THEN SchemaValidate(Schema(g), r.val, r.st, [dp |-> 0, ord |-> ord]) ELSE r

\* h.validate(g.validate(f.validate(x))) for the arguments <<f, g, h>> of an And
Chained(args, x, st) ==
    CASE Len(args) = 0 -> Ok(x, st)
      [] Len(args) = 1 -> Then(Ok(x, st), args[1])
      [] Len(args) = 2 -> Then(Then(Ok(x, st), args[1]), args[2])
      [] Len(args) = 3 -> Then(Then(Then(Ok(x, st), args[1]), args[2]), args[3])

\* the events of a log but for the marks of the except clauses
IsWork(ev) == ev.ev # "reraise"
Work(log) == SelectSeq(log, IsWork)

\* the call ended as the chain c did, and made the calls the chain made
SameAsChain(c) ==
    /\ last.ok = c.ok /\ last.val = c.val
    /\ ~c.ok => last.err.autos = <<MNone>> \o c.err.autos
    /\ Work(last.log) = Work(c.st.log)
    /\ mc = c.st.mc

\* C10: And(f, g).validate(x) is g.validate(f.validate(x)): the sub-schemas
\* run left to right, each on the output of the one before, and the first
\* failure ends the And with no later sub-schema invoked
C10_AndChained ==
    last.called /\ CaseAt(sid).s.s.kind = "and" =>
        SameAsChain(Chained(CaseAt(sid).s.s.args, last.data, Fresh(last.mc0)))

\* an And whose second callable was called with the output of the first
C10_Witness ==
    /\ last.called /\ CaseAt(sid).s.s.kind = "and" /\ last.ok
    /\ Len(Work(last.log)) = 2
    /\ Work(last.log)[2].arg # last.data

\* the result of the i-th alternative of the Or self on x, validated on its own
Alt(self, i, x) ==
    SchemaValidate(BuildSchema(self, self.args[i]), x, Fresh(last.mc0),
                   [dp |-> 0, ord |-> ord])

\* the alternatives of self that accept x
Accepting(self, x) == {i \in DOMAIN self.args : Alt(self, i, x).ok}

\* the alternatives Or.validate has to invoke: all up to the first that accepts
Invoked(self, x) ==
    {i \in DOMAIN self.args : \A j \in Accepting(self, x) : i <= j}

\* the calls of user callables the alternatives 1..n make, each alternative
\* validated on its own
RECURSIVE AltCalls(_, _, _)
AltCalls(self, x, n) ==
    IF n = 0 THEN <<>> ELSE AltCalls(self, x, n - 1) \o Work(Alt(self, n, x).st.log)

\* C11: Or(f, g).validate(x) without only_one returns f.validate(x) if f
\* succeeds, otherwise g.validate(x) of the original x; no alternative after
\* the first success is invoked; it fails if and only if every alternative
\* fails, so Or() fails on every input
C11_OrAlternative ==
    last.called /\ CaseAt(sid).s.s.kind = "or" /\ ~CaseAt(sid).s.s.only_one =>
        /\ last.ok <=> Accepting(CaseAt(sid).s.s, last.data) # {}
        /\ last.ok =>
              \E i \in Accepting(CaseAt(sid).s.s, last.data) :
                  /\ i \in Invoked(CaseAt(sid).s.s, last.data)
                  /\ last.val = Alt(CaseAt(sid).s.s, i, last.data).val
        /\ Work(last.log) = AltCalls(CaseAt(sid).s.s, last.data,
                               Cardinality(Invoked(CaseAt(sid).s.s, last.data)))
        /\ CaseAt(sid).s.s.args = <<>> => ~last.ok

\* an Or whose first alternative transformed the data and failed, and whose
\* second accepted the original data
C11_Witness ==
    /\ last.called /\ last.ok
    /\ CaseAt(sid).s.s = Or(1, <<StrThenFive, TypeN("int")>>, FALSE)
    /\ last.val = last.data
    /\ Len(Work(last.log)) = 1 /\ Work(last.log)[1].f = "str"

\* the first alternative of the Or o that accepts x
FirstAccepting(o, x) == CHOOSE i \in Accepting(o, x) : \A j \in Accepting(o, x) : i <= j

\* what the Or o makes of an element x it accepts
ElementOut(o, x) == Alt(o, FirstAccepting(o, x), x).val

\* the elements of a container, of any type, pass the Or o and come out
\* transformed, in order, in a container of the type of the data
ElementsRule(o, data) ==
    /\ last.ok <=> \A n \in DOMAIN data.v : Accepting(o, data.v[n]) # {}
    /\ last.ok =>
          /\ last.val.t = data.t
          /\ Len(last.val.v) = Len(data.v)
          /\ \A n \in DOMAIN data.v : last.val.v[n] = ElementOut(o, data.v[n])
    /\ data.v = <<>> => last.ok

\* C12: an iterable schema fails on data that is no instance of its container
\* type; otherwise it fails if and only if some element is accepted by no
\* element of the schema, and the result is a container of the data's own
\* type (a subclass too) with the transformed elements in order; empty data
\* of the container type passes (schemas whose elements hold no Or object)
C12_IterableSchema ==
    last.called /\ CaseAt(sid).s.s.kind = "list" /\ ~HoldsState(CaseAt(sid).s) =>
        IF IsInstance(last.data, CaseAt(sid).s.s.ctype)
        THEN ElementsRule(ElementsOr(CaseAt(sid).s), last.data)
        ELSE Ended(last, "SchemaUnexpectedTypeError")

\* an instance of a list subclass whose elements were transformed
C12_Witness ==
    /\ last.called /\ last.ok
    /\ CaseAt(sid).s.s.kind = "list"
    /\ last.data.t = "sublist" /\ last.val.t = "sublist"
    /\ Len(last.data.v) = 2
    /\ last.val.v[1] # last.data.v[1]

\* the dict schemas of the tree s that are reached through dict values and
\* iterable elements alone; hooks: the values of Hook keys count as well
RECURSIVE RawDicts(_, _)
RawDicts(s, hooks) ==
    CASE s.kind = "dict" ->
           {s} \cup UNION {RawDicts(s.entries[n][2], hooks) :
                              n \in {m \in DOMAIN s.entries :
                                        hooks \/ s.entries[m][1].kind # "hook"}}
      [] s.kind = "list" -> UNION {RawDicts(s.elems[n], hooks) : n \in DOMAIN s.elems}
      [] OTHER -> {}

\* the same, the arguments of And and Or passed through as well
RECURSIVE ReachedDicts(_)
ReachedDicts(s) ==
    CASE s.kind = "dict" ->
           {s} \cup UNION {ReachedDicts(s.entries[n][2]) : n \in DOMAIN s.entries}
      [] s.kind = "list" -> UNION {ReachedDicts(s.elems[n]) : n \in DOMAIN s.elems}
      [] s.kind \in {"and", "or"} -> UNION {ReachedDicts(s.args[n]) : n \in DOMAIN s.args}
      [] OTHER -> {}

\* the keys under which the pass closed at n stored validated items, and the
\* keys under which it stored defaults
StoredKeys(n) == {last.log[m].nkey : m \in PassEvents(n, "bind")}
FilledKeys(n) == {last.log[m].key : m \in PassEvents(n, "default")}

HasKey(d, k) == \E i \in DOMAIN d.v : PyEq(d.v[i][1], k)

\* the pass closed at n, run with the flag: no wrong-key error; the result
\* holds every data item a schema key bound and no data key that none bound.
\* apart: keys stored twice, by two items or by an item and a default, are
\* set aside
Dropped(n, apart) ==
    /\ ~Ended(last.log[n], "SchemaWrongKeyError")
    /\ last.log[n].ok =>
          /\ \A m \in PassEvents(n, "bind") :
                 IF apart
                 THEN /\ HasKey(last.log[n].val, last.log[m].nkey)
                      /\ (\A j \in PassEvents(n, "bind") \ {m} :
                              ~PyEq(last.log[j].nkey, last.log[m].nkey))
                         /\ NoDefaultOn(last.log[n], last.log[m].nkey)
                         => Has(last.log[n].val, last.log[m].nkey, last.log[m].nvalue)
                 ELSE Has(last.log[n].val, last.log[m].nkey, last.log[m].nvalue)
          /\ \A k \in Unmatched(n) :
                 HasKey(last.log[n].val, k)
                     => apart /\ \E j \in StoredKeys(n) \cup FilledKeys(n) : PyEq(j, k)

\* every pass of a dict schema of D drops the unmatched keys
IgnoreRule(D, apart) ==
    \A n \in Events("done") : DictS(last.log[n].entries) \in D => Dropped(n, apart)

\* C13 (amended): with ignore_extra_keys set on a schema, a dict pass never
\* fails for a data key that no schema key matched, its result holds every
\* matched item under its validated key (unless a later item or a default was
\* stored under an equal key) and no other data key; the flag is passed on to
\* the dict schemas reached through dict values of keys that are no Hook and
\* through iterable elements, at every nesting level, and not to the arguments
\* of an And or Or or to a nested Schema object, which pass on their own flag
C13_IgnoreExtraKeys ==
    last.called /\ CaseAt(sid).s.ignore =>
        IgnoreRule(RawDicts(CaseAt(sid).s.s, FALSE), TRUE)

\* C13 as stated: the flag reaches the dict schemas under And and Or arguments
\* as well, and every matched item is in the result
C13_Original ==
    last.called /\ CaseAt(sid).s.ignore =>
        IgnoreRule(ReachedDicts(CaseAt(sid).s.s), FALSE)

\* a flagged pass that dropped a key at the outer and at the inner level
C13_Witness ==
    /\ last.called /\ last.ok /\ CaseAt(sid).s.ignore
    /\ \E n, m \in Events("done") :
           /\ last.log[n].dp = 0 /\ last.log[m].dp > 0
           /\ last.log[n].ignore /\ last.log[m].ignore
           /\ Unmatched(n) # {} /\ Unmatched(m) # {}

\* the messages of a list that are not None: those the user supplied, as a
\* template of a schema, and those the library generated
Said(seq) == {seq[n] : n \in DOMAIN seq} \ {MNone}
UserSaid(seq) == {x \in Said(seq) : x.m \in {"user", "raw"}}

\* lines are the entries of seq that are not None, each once, in the order in
\* which seq has them first
Rendering(lines, seq) ==
    /\ {lines[n] : n \in DOMAIN lines} = Said(seq)
    /\ \A a, b \in DOMAIN lines : a < b =>
           /\ lines[a] # lines[b]
           /\ \E i \in DOMAIN seq :
                  /\ seq[i] = lines[a]
                  /\ \A j \in DOMAIN seq : seq[j] = lines[b] => i < j

\* C14: the message of a validation error is its errors, None entries and
\* duplicates removed and the order of first occurrence kept, if any is left,
\* and its autos treated the same way otherwise; so a message that the user
\* supplied, anywhere in the chain, hides every message the library generated
C14_ErrorRendering ==
    last.called /\ ~last.ok /\ IsSchemaError(last.err) =>
        /\ IF Said(last.err.errors) # {}
           THEN Rendering(Code(last.err), last.err.errors)
           ELSE Rendering(Code(last.err), last.err.autos)
        /\ UserSaid(last.err.autos) \cup UserSaid(last.err.errors) # {}
              => \A n \in DOMAIN Code(last.err) : Code(last.err)[n].m \in {"user", "raw"}

\* autos and errors of an error have the same length, and where a frame has a
\* generated message about some data and a formatted template, the template
\* was formatted with that data
Aligned(err) ==
    /\ Len(err.autos) = Len(err.errors)
    /\ \A i \in DOMAIN err.autos :
           /\ "arg" \in DOMAIN err.errors[i]
           /\ "data" \in DOMAIN err.autos[i]
           => err.errors[i].arg = Filling(err.autos[i].data)

\* C15: every validation error raised in a call, at any depth, caught on the
\* way or not, has autos and errors of the same length, index-aligned
C15_ErrorsAligned ==
    last.called => \A n \in DOMAIN last.errs : Aligned(last.errs[n])

\* a call that raised errors at three depths, the innermost with a formatted
\* template, and failed with a chain of three frames
C15_Witness ==
    /\ last.called /\ ~last.ok
    /\ Len(last.errs) >= 3
    /\ Len(last.err.autos) >= 3
    /\ \E i \in DOMAIN last.err.errors : "arg" \in DOMAIN last.err.errors[i]

\* the tree holds a Use node
RECURSIVE HoldsUse(_)
HoldsUse(s) == s.kind = "use" \/ \E p \in Parts(s) : HoldsUse(p)

\* schema.validate(d), called now on the schema object as the last call left it
Again(d) == SchemaValidate(CaseAt(sid).s, d, Fresh(mc), [dp |-> 0, ord |-> ord])

\* validate(y) succeeds and returns y
Returns(r, y) == r.ok /\ r.val = y

\* C16: for a schema without a Use node, when validate(x) returned y and
\* injected no default of an Optional, validate(y) ends as validate(x) called
\* again would: it returns y, unless the count of an Or(only_one=True) that
\* was not reset makes the repeated call fail
C16_Idempotent ==
    /\ last.called /\ last.ok
    /\ ~HoldsUse(CaseAt(sid).s)
    /\ Events("default") = {}
    => IF Again(last.data).ok THEN Returns(Again(last.val), last.val)
       ELSE ~Again(last.val).ok

\* C16 as stated: for a schema without a Use node, when validate(x) returned y
\* then validate(y) succeeds and returns y
C16_Original ==
    last.called /\ last.ok /\ ~HoldsUse(CaseAt(sid).s)
        => Returns(Again(last.val), last.val)

\* as stated, and apart from the counts that an earlier call left behind
C16_OriginalFresh ==
    last.called /\ last.ok /\ ~HoldsUse(CaseAt(sid).s)
        => Returns(SchemaValidate(CaseAt(sid).s, last.val, Fresh([id \in OrIds |-> 0]),
                                  [dp |-> 0, ord |-> ord]),
                   last.val)

\* a dict schema with Optional keys that carry defaults returned a result, all
\* its defaults covered by the data, and accepts the result again
C16_Witness ==
    /\ last.called /\ last.ok
    /\ ~HoldsUse(CaseAt(sid).s)
    /\ CaseAt(sid).s.s.kind = "dict"
    /\ Defaults(CaseAt(sid).s.s.entries, {}) # {}
    /\ Events("default") = {}
    /\ last.data.v # <<>>
    /\ Returns(Again(last.val), last.val)

\* the resets of the schema key k that ran in the pass closed at n
ResetsOf(n, k) == {m \in PassEvents(n, "reset") : last.log[m].sk = k}

\* the events of the key scan of the pass closed at n
ScanEvents(n) ==
    PassEvents(n, "bind") \cup PassEvents(n, "skip") \cup PassEvents(n, "hook")
        \cup PassEvents(n, "abort")

\* in the pass closed at n the reset of every schema key that has one ran
\* exactly once, after the key scan and before the defaults were filled in
ResetOnce(n) ==
    /\ \A k \in DOMAIN last.log[n].entries :
           Cardinality(ResetsOf(n, k))
               = IF HasReset(last.log[n].entries[k][1]) THEN 1 ELSE 0
    /\ \A m \in PassEvents(n, "reset") :
           /\ \A j \in ScanEvents(n) : j < m
           /\ \A j \in PassEvents(n, "default") : m < j

\* every pass that was opened was closed
AllClosed ==
    /\ Cardinality(Events("pass")) = Cardinality(Events("done"))
    /\ \A m \in Events("pass") :
           \E n \in Events("done") : m < n /\ last.log[n].dp = last.log[m].dp

\* C17: for every dict validation call on data that is a mapping, the reset
\* of every schema key that has one runs exactly once, at the end of the key
\* scan of that call, whether the call succeeds or fails; on data that is not
\* a mapping the call fails before it registers a reset, and none runs
C17_ResetOnce ==
    last.called =>
        /\ AllClosed
        /\ \A n \in Events("done") : ResetOnce(n)
        /\ CaseAt(sid).s.s.kind = "dict" /\ ~IsMapping(last.data) => Events("reset") = {}

\* C17 as stated: also in a call on data that is not a mapping, the reset of
\* every schema key that has one runs exactly once
C17_Original ==
    last.called /\ CaseAt(sid).s.s.kind = "dict" =>
        \A k \in DOMAIN CaseAt(sid).s.s.entries :
            HasReset(CaseAt(sid).s.s.entries[k][1]) =>
                Cardinality({m \in Events("reset") :
                                last.log[m].dp = 0 /\ last.log[m].sk = k}) = 1

\* a pass with two keys that have a reset: the reset that ran first raised,
\* and the other ran after it
C17_Witness ==
    /\ last.called
    /\ \E n \in Events("done") :
           \E a, b \in PassEvents(n, "reset") :
               a < b /\ last.log[a].raised /\ last.log[a].sk # last.log[b].sk

\* the resets of the pass closed at n that raised
Raisers(n) == {m \in PassEvents(n, "reset") : last.log[m].raised}

\* some alternative of the Or of the schema key accepts the data key
KeyAccepts(skey, key) ==
    \E i \in DOMAIN OrOfKey(skey).args : Accepts(OrOfKey(skey).args[i], key)

\* the place of the schema key k in the order of the key scan
PlaceOf(entries, k) ==
    CHOOSE j \in DOMAIN SortedSkeys(entries) : SortedSkeys(entries)[j] = k

\* the data items of the pass closed at n that the only-one key k matches:
\* their key is accepted by the Or, and no schema key scanned before k took
\* the item
MatchedBy(n, k) ==
    {i \in DOMAIN last.log[n].data.v :
        /\ KeyAccepts(last.log[n].entries[k][1], last.log[n].data.v[i][1])
        /\ ~\E m \in PassEvents(n, "bind") :
               /\ last.log[m].key = last.log[n].data.v[i][1]
               /\ PlaceOf(last.log[n].entries, last.log[m].sk)
                      < PlaceOf(last.log[n].entries, k)}

\* the errors of the dedicated only-one class that the last call raised
OnlyOneRaised ==
    {m \in DOMAIN last.errs : last.errs[m].cls = "SchemaOnlyOneAllowedError"}

\* C18: the dedicated only-one error is raised by reset only, never when a
\* key is matched; in a dictionary pass whose key scan ran to its end, the
\* reset of an Or(only_one=True) key raises it, once, exactly when more than
\* one data key matched that key; and a pass in which a reset raised it ends
\* with that error, whatever was raised earlier inside the pass and whatever
\* keys are missing or wrong
C18_OnlyOneAtReset ==
    last.called =>
        /\ Cardinality(OnlyOneRaised)
               = Cardinality({m \in Events("reset") : last.log[m].raised})
        /\ \A n \in Events("done") :
               /\ \A k \in DOMAIN last.log[n].entries :
                      OnlyOneKey(last.log[n].entries[k][1]) =>
                          /\ Cardinality(ResetsOf(n, k) \cap Raisers(n)) <= 1
                          /\ ResetsOf(n, k) \cap Raisers(n) # {}
                                 => Cardinality(MatchedBy(n, k)) > 1
                          /\ last.log[n].scanned /\ Cardinality(MatchedBy(n, k)) > 1
                                 => ResetsOf(n, k) \cap Raisers(n) # {}
               /\ Raisers(n) # {} =>
                      /\ Ended(last.log[n], "SchemaOnlyOneAllowedError")
                      /\ \E m \in Raisers(n) : last.log[n].err = OnlyOneError(last.log[m].sk)
               /\ Raisers(n) = {} => ~Ended(last.log[n], "SchemaOnlyOneAllowedError")

\* a pass left by the error of a value mismatch, with a required key
\* uncovered, in which the reset then raised the only-one error, and the call
\* failed with it
C18_Witness ==
    /\ last.called /\ ~last.ok
    /\ last.err.cls = "SchemaOnlyOneAllowedError"
    /\ \E n \in Events("done") :
           /\ last.log[n].dp = 0
           /\ PassEvents(n, "abort") # {}
           /\ Uncovered(last.log[n]) # {}
           /\ Raisers(n) # {}

\* the Or(only_one=True) at the root of the case
RootOnlyOne == CaseAt(sid).s.s.kind = "or" /\ CaseAt(sid).s.s.only_one

\* by how much the last call raised the count of the Or at the root
Counted == mc[CaseAt(sid).s.s.id] - last.mc0[CaseAt(sid).s.s.id]

\* C19: in only_one mode a single Or.validate call stops at the first
\* alternative that accepts the data and invokes none after it; match_count
\* grows by one if some alternative accepts and not at all otherwise; the
\* call returns what that alternative returned unless the count is then
\* above one, in which case it fails with the error of an Or that no
\* alternative validated
C19_OnlyOneStops ==
    last.called /\ RootOnlyOne =>
        /\ Counted = IF Accepting(CaseAt(sid).s.s, last.data) # {} THEN 1 ELSE 0
        /\ Work(last.log) = AltCalls(CaseAt(sid).s.s, last.data,
                               Cardinality(Invoked(CaseAt(sid).s.s, last.data)))
        /\ last.ok <=> /\ Accepting(CaseAt(sid).s.s, last.data) # {}
                       /\ mc[CaseAt(sid).s.s.id] <= 1
        /\ last.ok => last.val = ElementOut(CaseAt(sid).s.s, last.data)
        /\ ~last.ok => /\ last.err.cls = "SchemaError"
                       /\ last.err.autos[2] = [m |-> "or", data |-> last.data]

\* C19 as stated: the call tries every alternative, and adds to match_count
\* the number of alternatives that accept the data
C19_Original ==
    last.called /\ RootOnlyOne =>
        Counted = Cardinality(Accepting(CaseAt(sid).s.s, last.data))

\* a call on data that two alternatives accept, the second a callable that
\* was not invoked: the count went from 0 to 1
C19_Witness ==
    /\ last.called /\ last.ok /\ RootOnlyOne
    /\ Cardinality(Accepting(CaseAt(sid).s.s, last.data)) >= 2
    /\ \E i \in Accepting(CaseAt(sid).s.s, last.data) :
           CaseAt(sid).s.s.args[i].kind = "fn"
    /\ Work(last.log) = <<>>
    /\ last.mc0[CaseAt(sid).s.s.id] = 0 /\ Counted = 1

\* the autos and the errors of the alternatives 1..n of the Or self that
\* failed on x, one chain after the other
RECURSIVE AltAutos(_, _, _)
AltAutos(self, x, n) ==
    IF n = 0 THEN <<>>
    ELSE AltAutos(self, x, n - 1)
             \o (IF Alt(self, n, x).ok THEN <<>> ELSE Alt(self, n, x).err.autos)

RECURSIVE AltErrors(_, _, _)
AltErrors(self, x, n) ==
    IF n = 0 THEN <<>>
    ELSE AltErrors(self, x, n - 1)
             \o (IF Alt(self, n, x).ok THEN <<>> ELSE Alt(self, n, x).err.errors)

\* the Or at the root of the case, which every alternative of failed on the
\* data of the last call
AllFailed ==
    /\ last.called /\ CaseAt(sid).s.s.kind = "or"
    /\ Accepting(CaseAt(sid).s.s, last.data) = {}

\* the frame the Schema around the Or puts before the error of the Or
Frame(field) == IF field = "autos" THEN <<MNone>> ELSE <<Fmt(CaseAt(sid).s.error, last.data)>>

TakersOf(e, key) ==
    {k \in DOMAIN e.entries : e.entries[k][1].kind # "hook" /\ Accepts(e.entries[k][1], key)}

\* the schema key k is the first of the ordinary keys, in the order of the
\* scan, whose key-schema accepts the data key
FirstTaker(e, k, key) ==
    /\ k \in TakersOf(e, key)
    /\ \A j \in TakersOf(e, key) : PlaceOf(e.entries, k) <= PlaceOf(e.entries, j)

\* no key-schema of the pass holds a count: whether it accepts a key does not
\* depend on what it accepted before
Stateless(e) == \A k \in DOMAIN e.entries : ~HoldsState(e.entries[k][1])

\* the value mismatch at the event m ended the scan of the pass closed at n:
\* nothing was scanned after it, and its data key was bound by no schema key
Fatal(n, m) ==
    /\ ~last.log[n].scanned /\ ~last.log[n].ok
    /\ \A j \in ScanEvents(n) : j <= m
    /\ \A b \in PassEvents(n, "bind") : last.log[b].key # last.log[m].key
    /\ Stateless(last.log[n]) => FirstTaker(last.log[n], last.log[m].sk, last.log[m].key)

\* the pass ended with an error whose first entry is the key context
KeyContext(e) == Ended(e, "SchemaError") /\ e.err.autos[1].m = "key"

\* C21: a failure of the value-schema of the first ordinary schema key, in
\* priority order, whose key-schema accepts a data key aborts the dict
\* validation: no later schema key is tried for that data key, no later item
\* is scanned, and the validation fails with a key-context error, unless the
\* reset of an Or(only_one=True) key raises the only-one error in its place;
\* an item is never bound by a schema key that comes after the first ordinary
\* key accepting its data key
C21_ValueMismatchFatal ==
    last.called =>
        \A n \in Events("done") :
            /\ \A m \in PassEvents(n, "abort") :
                   /\ Fatal(n, m)
                   /\ Raisers(n) = {} => KeyContext(last.log[n])
            /\ Stateless(last.log[n]) =>
                   \A b \in PassEvents(n, "bind") :
                       FirstTaker(last.log[n], last.log[b].sk, last.log[b].key)

\* C21 as stated: the value mismatch always ends the dict validation with a
\* key-context error
C21_Original ==
    last.called =>
        \A n \in Events("done") :
            \A m \in PassEvents(n, "abort") : Fatal(n, m) /\ KeyContext(last.log[n])

\* the value of an item failed under the first ordinary key that accepts its
\* data key, although a later key accepts both the data key and the value
C21_Witness ==
    /\ last.called /\ ~last.ok
    /\ \E n \in Events("done") :
           \E m \in PassEvents(n, "abort") :
               /\ KeyContext(last.log[n])
               /\ \E k \in TakersOf(last.log[n], last.log[m].key) :
                      /\ k # last.log[m].sk
                      /\ \E i \in DOMAIN last.log[n].data.v :
                             /\ last.log[n].data.v[i][1] = last.log[m].key
                             /\ Accepts(last.log[n].entries[k][2], last.log[n].data.v[i][2])

\* the Hook keys of the pass e whose key-schema accepts the data key
HooksOf(e, key) ==
    {k \in DOMAIN e.entries : e.entries[k][1].kind = "hook" /\ Accepts(e.entries[k][1], key)}

\* what the key-schema of the schema key k of the pass e makes of the data key
KeyOut(e, k, key) ==
    SchemaValidate(SchemaOf(e.entries[k][1], e.error, FALSE), key,
                   Fresh([id \in OrIds |-> 0]), [dp |-> 0, ord |-> ord]).val

\* the value of the item of the pass e with the data key
ValueOf(e, key) == e.data.v[CHOOSE i \in DOMAIN e.data.v : e.data.v[i][1] = key][2]

\* the events of the pass closed at n at which the Hook key k met the data
\* key: its handler was called ("hook"), or its value-schema refused ("skip")
Met(n, k, key, ev) ==
    {m \in PassEvents(n, ev) : last.log[m].sk = k /\ last.log[m].key = key}

\* the scan of the item with the data key got as far as the schema key k: no
\* schema key scanned before k bound the item
ReachedBy(n, k, key) ==
    \A b \in PassEvents(n, "bind") :
        last.log[b].key = key =>
            PlaceOf(last.log[n].entries, k) < PlaceOf(last.log[n].entries, last.log[b].sk)

\* the handler call at the event m of the pass closed at n has a Hook key
\* that accepts the data key and the value, and is the next thing that
\* happens, with the validated key, the whole mapping and the error template
HandlerCall(n, m) ==
    /\ last.log[m].sk \in HooksOf(last.log[n], last.log[m].key)
    /\ Accepts(last.log[n].entries[last.log[m].sk][2], ValueOf(last.log[n], last.log[m].key))
    /\ last.log[m + 1]
           = [ev |-> "handle",
              nkey |-> KeyOut(last.log[n], last.log[m].sk, last.log[m].key),
              data |-> last.log[n].data, error |-> last.log[n].error]

\* C22: in every dict pass, a handler is called only for a Hook key that
\* accepts the data key and whose value-schema accepts the value, with the
\* validated key, the whole input mapping and the error template; no Hook is
\* covered or binds an item; and in a pass whose scan ran to its end, for
\* every item and every Hook key accepting its data key that the scan of the
\* item reached, the handler was called exactly once if the value-schema
\* accepts the value and not at all otherwise, and the item was still bound
\* by the first ordinary key accepting its data key
C22_HookHandling ==
    last.called =>
        /\ Cardinality(Events("hook")) = Cardinality(Events("handle"))
        /\ \A n \in Events("done") :
               /\ \A m \in PassEvents(n, "hook") : HandlerCall(n, m)
               /\ \A k \in last.log[n].coverage : last.log[n].entries[k][1].kind # "hook"
               /\ \A b \in PassEvents(n, "bind") :
                      last.log[n].entries[last.log[b].sk][1].kind # "hook"
               /\ last.log[n].scanned /\ Stateless(last.log[n]) =>
                      \A key \in KeysOf(last.log[n].data) :
                          /\ \A k \in HooksOf(last.log[n], key) :
                                 Cardinality(Met(n, k, key, "hook"))
                                     = IF /\ ReachedBy(n, k, key)
                                          /\ Accepts(last.log[n].entries[k][2],
                                                     ValueOf(last.log[n], key))
                                       THEN 1 ELSE 0
                          /\ TakersOf(last.log[n], key) # {} =>
                                 \E b \in PassEvents(n, "bind") : last.log[b].key = key

\* a handler was called with a validated key that differs from the data key
\* and with an error template, returned, and a later key bound the item
C22_Witness ==
    /\ last.called /\ last.ok
    /\ \E n \in Events("done") :
           \E m \in PassEvents(n, "hook") :
               /\ last.log[m + 1].nkey # last.log[m].key
               /\ last.log[m + 1].error # "None"
               /\ \E b \in PassEvents(n, "bind") : m < b /\ last.log[b].key = last.log[m].key

\* the kind number of a raw schema
KindNumber(raw) ==
    CASE raw.kind = "lit" -> 0
      [] raw.kind = "fn" -> 1
      [] raw.kind \in {"and", "or", "use", "regex", "schema", "bad"} -> 2
      [] raw.kind = "type" -> 3
      [] raw.kind = "dict" -> 4
      [] raw.kind = "list" -> 5

\* twice the priority of a schema key: the kind number of the wrapped raw
\* schema, minus a half for a Hook and plus a half for an Optional
TwicePriority(skey) ==
    CASE skey.kind = "hook" -> 2 * KindNumber(skey.s) - 1
      [] skey.kind = "optional" -> 2 * KindNumber(skey.s) + 1
      [] OTHER -> 2 * KindNumber(skey)

\* the schema key a of the pass e is tried before the schema key b: it has
\* the lower priority, or the same and comes first in the schema
TriedBefore(e, a, b) ==
    \/ TwicePriority(e.entries[a][1]) < TwicePriority(e.entries[b][1])
    \/ TwicePriority(e.entries[a][1]) = TwicePriority(e.entries[b][1]) /\ a < b

\* C23: in every dict pass of every call, for every data key, the schema
\* keys act in ascending priority (kind number of the wrapped raw schema,
\* minus 0.5 for a Hook and plus 0.5 for an Optional), keys of equal priority
\* in schema order: what the scan did for one data key it did in that order,
\* the ordinary key that took an item is the first in that order to accept
\* its data key, and no Hook that accepts the data key and comes before the
\* taker was passed over
C23_ScanOrder ==
    last.called =>
        \A n \in Events("done") :
            /\ \A a, b \in ScanEvents(n) :
                   a < b /\ last.log[a].key = last.log[b].key
                       => TriedBefore(last.log[n], last.log[a].sk, last.log[b].sk)
            /\ Stateless(last.log[n]) =>
                   /\ \A m \in PassEvents(n, "bind") \cup PassEvents(n, "abort") :
                          \A j \in TakersOf(last.log[n], last.log[m].key) \ {last.log[m].sk} :
                              TriedBefore(last.log[n], last.log[m].sk, j)
                   /\ last.log[n].scanned =>
                          \A key \in KeysOf(last.log[n].data) :
                              \A k \in HooksOf(last.log[n], key) :
                                  (\A b \in PassEvents(n, "bind") :
                                       last.log[b].key = key
                                           => TriedBefore(last.log[n], k, last.log[b].sk))
                                  => Met(n, k, key, "hook") \cup Met(n, k, key, "skip") # {}

\* a pass over a schema whose keys were inserted against their priority: for
\* one data key a Hook acted and then a key inserted before it, and an
\* Optional took an item that a validator key inserted before it also accepts
C23_Witness ==
    /\ last.called
    /\ \E n \in Events("done") :
           /\ \E a, b \in ScanEvents(n) :
                  /\ a < b /\ last.log[a].key = last.log[b].key
                  /\ last.log[b].sk < last.log[a].sk
           /\ \E m \in PassEvents(n, "bind") :
                  /\ last.log[n].entries[last.log[m].sk][1].kind = "optional"
                  /\ \E j \in TakersOf(last.log[n], last.log[m].key) :
                         j < last.log[m].sk /\ last.log[n].entries[j][1].kind = "and"

\* the place of the data key among the items of the pass e, as given
IndexOf(e, key) == CHOOSE i \in DOMAIN e.data.v : e.data.v[i][1] = key

\* the item with the data key a is processed before the item with the data
\* key b: its value is not a mapping and the other's is, or both are of one
\* group and it comes first in the input
ItemBefore(e, a, b) ==
    \/ ~IsMapping(ValueOf(e, a)) /\ IsMapping(ValueOf(e, b))
    \/ /\ IsMapping(ValueOf(e, a)) <=> IsMapping(ValueOf(e, b))
       /\ IndexOf(e, a) < IndexOf(e, b)

\* the items of the pass closed at n that something happened to
Processed(n) == {last.log[m].key : m \in ScanEvents(n)}

\* C24: within one dict validation every item whose value is not a mapping
\* is processed (key scan, value validation, Hook handler calls) before any
\* item whose value is a mapping, items of one group in input order; hence
\* the item whose value mismatch ends the pass is the first, in that order,
\* of the items whose value fails, and the error raised names its key
C24_FlatItemsFirst ==
    last.called =>
        \A n \in Events("done") :
            /\ \A a, b \in ScanEvents(n) :
                   a < b /\ last.log[a].key # last.log[b].key
                       => ItemBefore(last.log[n], last.log[a].key, last.log[b].key)
            /\ \A m \in PassEvents(n, "abort") :
                   /\ \A key \in Processed(n) \ {last.log[m].key} :
                          ItemBefore(last.log[n], key, last.log[m].key)
                   /\ Raisers(n) = {} =>
                          last.log[n].err.autos[1]
                              = [m |-> "key",
                                 key |-> KeyOut(last.log[n], last.log[m].sk, last.log[m].key)]
            /\ last.log[n].scanned /\ Stateless(last.log[n]) =>
                   \A key \in KeysOf(last.log[n].data) :
                       TakersOf(last.log[n], key) # {} => key \in Processed(n)

\* a mapping whose first item has a mapping for its value and whose second
\* has not, both with a value that fails: the pass ended on the second
C24_Witness ==
    /\ last.called /\ ~last.ok
    /\ IsMapping(last.data) /\ Len(last.data.v) = 2
    /\ IsMapping(last.data.v[1][2]) /\ ~IsMapping(last.data.v[2][2])
    /\ ~Accepts(DictS(<< <<Lit(PStr("x")), TypeN("int")>> >>), last.data.v[1][2])
    /\ last.data.v[1][1] = PStr("a")
    /\ \E n \in Events("done") :
           /\ last.log[n].dp = 0
           /\ \E m \in PassEvents(n, "abort") : last.log[m].key = last.data.v[2][1]
    /\ last.err.autos[1] = [m |-> "key", key |-> last.data.v[2][1]]

(***************************************************************************)
(* Error context.                                                          *)
(***************************************************************************)
\* the error carries a context entry at its head: None, or the key message
Context(err) == Len(err.autos) >= 1 /\ err.autos[1].m \in {"None", "key"}

\* outer is inner with exactly one entry put before each list: None or the
\* key message before autos, the error of the schema that caught it, formatted,
\* or None before errors
Prepended(outer, inner) ==
    /\ Len(outer.autos) = Len(inner.autos) + 1
    /\ Len(outer.errors) = Len(inner.errors) + 1
    /\ Tail(outer.autos) = inner.autos
    /\ Tail(outer.errors) = inner.errors
    /\ outer.errors[1].m \in {"None", "raw", "user"}

\* the places where a validation error was caught to be raised again: in the
\* except clauses around a validator or a callable, or under a matched key
Crossings == {m \in DOMAIN last.log : last.log[m].ev \in {"reraise", "abort"}}

\* the number of context entries at the head of the error raised n-th
RECURSIVE Contexts(_)
Contexts(n) == IF n >= 1 /\ Context(last.errs[n]) THEN 1 + Contexts(n - 1) ELSE 0

\* C25: every error raised where a sub-failure is caught and raised again (a
\* nested validator, a callable that raised a validation error, a value under
\* a matched key) is the error raised just before it with exactly one entry
\* put before its autos and one before its errors, the inner lists kept as
\* they were; there is one such error for every such place, and a chain is as
\* long as the contexts put before it plus the chain of the leaf
C25_ContextPrepended ==
    last.called =>
        /\ \A n \in DOMAIN last.errs :
               Context(last.errs[n])
               => /\ n > 1
                  /\ Prepended(last.errs[n], last.errs[n - 1])
                  /\ Len(last.errs[n].autos)
                         = Contexts(n) + Len(last.errs[n - Contexts(n)].autos)
        /\ Cardinality({n \in DOMAIN last.errs : Context(last.errs[n])})
               = Cardinality(Crossings)

\* a call crossed four boundaries, among them a key and a callable that
\* raised a validation error, and failed with the leaf's chain at the end
C25_Witness ==
    /\ last.called /\ ~last.ok
    /\ Cardinality(Crossings) >= 4
    /\ \E m \in Crossings : last.log[m].ev = "abort"
    /\ Len(last.err.autos) = 5
    /\ last.err.autos[5] = [m |-> "said", tpl |-> "first auto"]
    /\ last.err.autos[1].m = "key"
    /\ last.err.errors[1] # MNone

(***************************************************************************)
(* Exceptions of callables and validators.                                 *)
(***************************************************************************)
\* the tree holds a Hook whose handler raises an exception of its own
RECURSIVE HoldsRaisingHandler(_)
HoldsRaisingHandler(s) ==
    \/ s.kind = "hook" /\ s.handler = "raises"
    \/ \E p \in Parts(s) : HoldsRaisingHandler(p)

\* the calls of predicates, Use callables and validators made so far
Calls == {m \in DOMAIN last.log : last.log[m].ev = "call"}

\* what the call logged at m did: it raised an exception that is no validation
\* error, or it was a predicate that returned a falsy value
Threw(m) ==
    \/ last.log[m].by = "validator"
    \/ /\ last.log[m].by \in {"callable", "use"}
       /\ Call(last.log[m].f, last.log[m].arg).raised
       /\ ~Call(last.log[m].f, last.log[m].arg).se

Falsy(m) ==
    /\ last.log[m].by = "callable"
    /\ ~Call(last.log[m].f, last.log[m].arg).raised
    /\ ~Truthy(Call(last.log[m].f, last.log[m].arg).val)

\* the validation error with the one auto message a
Reported(a) ==
    \E n \in DOMAIN last.errs :
        /\ last.errs[n].cls = "SchemaError"
        /\ last.errs[n].autos = <<a>>
        /\ Len(last.errs[n].errors) = 1

\* C26: an exception that is no validation error, raised by a predicate, by a
\* Use callable or by the validate of a nested validator, is caught and raised
\* as a validation error whose one auto message tells the call; a schema
\* whose hooks have no raising handler never ends a validation with another
\* exception than a validation error; a predicate that returns a falsy value
\* fails with the 'should evaluate to True' validation error
C26_ExceptionsCaught ==
    last.called =>
        /\ \A m \in Calls :
               /\ Threw(m) /\ last.log[m].by = "validator"
                  => Reported([m |-> "validate_raised", data |-> last.log[m].arg])
               /\ Threw(m) /\ last.log[m].by # "validator"
                  => Reported([m |-> "raised", f |-> last.log[m].f,
                               data |-> last.log[m].arg])
               /\ Falsy(m)
                  => Reported([m |-> "true", f |-> last.log[m].f,
                               data |-> last.log[m].arg])
        /\ ~HoldsRaisingHandler(CaseAt(sid).s.s) => How(last) \in {"ok"} \cup SchemaErrors

\* a call in which a validator's validate, a Use callable and a predicate
\* raised, each caught, and that ended with a validation error
C26_Witness ==
    /\ last.called /\ ~last.ok
    /\ How(last) = "SchemaError"
    /\ \E m \in Calls : Threw(m) /\ last.log[m].by = "validator"
    /\ \E m \in Calls : Threw(m) /\ last.log[m].by = "use"
    /\ ~HoldsRaisingHandler(CaseAt(sid).s.s)

\* a predicate returned a falsy value and the call failed with its error
C26_WitnessFalsy ==
    /\ last.called /\ ~last.ok
    /\ \E m \in Calls : Falsy(m)
    /\ last.err.autos[Len(last.err.autos)].m = "true"

(***************************************************************************)
(* The key of a default.                                                   *)
(***************************************************************************)
\* C27: the key under which the default of an Optional around a literal is
\* put into the result equals the literal, for a string and for another
\* literal such as an integer: it is a key that the Optional's own
\* key-schema accepts
C27_DefaultKeyIdentity ==
    last.called =>
        \A n \in Events("done") :
            \A m \in PassEvents(n, "default") :
                PyEq(last.log[m].key, last.log[n].entries[last.log[m].sk][1].s.v)

C28_WitnessFailed ==
    /\ last.called /\ ~last.ok
    /\ \E n \in Events("done") :
           /\ last.log[n].dp > 0
           /\ ~last.log[n].ok
           /\ Len(last.log[n].new) >= 1

(***************************************************************************)
(* Coverage.                                                               *)
(***************************************************************************)
\* no schema of the pass, key or value, holds a count
PlainPass(e) ==
    \A k \in DOMAIN e.entries :
        ~HoldsState(e.entries[k][1]) /\ ~HoldsState(e.entries[k][2])

\* the value-schema of the ordinary schema key k of the pass e, built with
\* the flag of the pass, accepts x
ValueAccepts(e, k, x) ==
    SchemaValidate(SchemaOf(e.entries[k][2], "None", e.ignore), x,
                   Fresh([id \in OrIds |-> 0]), [dp |-> 0, ord |-> ord]).ok

\* the events at which an ordinary value-schema was applied to the value of
\* the item with the data key
Applied(n, key) ==
    {m \in PassEvents(n, "bind") \cup PassEvents(n, "abort") : last.log[m].key = key}

\* the coverage rules of the pass closed at n
CoverageRules(n) ==
    LET e == last.log[n]
    IN  /\ \A i \in DOMAIN e.data.v : Cardinality(Applied(n, e.data.v[i][1])) <= 1
        /\ \A k \in e.coverage :
               /\ e.entries[k][1].kind # "hook"
               /\ \E m \in PassEvents(n, "bind") :
                      /\ last.log[m].sk = k
                      /\ \E i \in DOMAIN e.data.v : e.data.v[i][1] = last.log[m].key
                      /\ PlainPass(e)
                         => /\ Accepts(e.entries[k][1], last.log[m].key)
                            /\ ValueAccepts(e, k, ValueOf(e, last.log[m].key))
        /\ \A m \in PassEvents(n, "bind") : last.log[m].sk \in e.coverage
        /\ \A r \in DOMAIN e.new :
               \E m \in PassEvents(n, "bind") :
                   e.new[r] = <<last.log[m].nkey, last.log[m].nvalue>>
        /\ e.ok => /\ RequiredKeys(e) \subseteq e.coverage
                   /\ ~e.ignore => Len(e.new) = Len(e.data.v)

\* C29: in every dict pass each data item is bound by at most one schema
\* key and has at most one ordinary value-schema applied to its value; the
\* coverage holds only schema keys without a Hook whose key-schema accepted the
\* key of some data item and whose value-schema accepted its value; every
\* result entry comes from such a binding; a successful pass covers all the
\* required keys and, unless ignore_extra_keys is set, has as many result
\* entries before the defaults as the data has items
C29_Coverage ==
    last.called => \A n \in Events("done") : CoverageRules(n)

\* a successful pass, without ignore_extra_keys, in which a Hook met an item
\* that an ordinary key then bound, and that left an Optional key uncovered
C29_Witness ==
    /\ last.called /\ last.ok
    /\ \E n \in Events("done") :
           /\ last.log[n].ok /\ ~last.log[n].ignore
           /\ PlainPass(last.log[n])
           /\ \E h \in PassEvents(n, "skip") \cup PassEvents(n, "hook") :
                  \E m \in PassEvents(n, "bind") : last.log[m].key = last.log[h].key
           /\ \E k \in DOMAIN last.log[n].entries :
                  /\ last.log[n].entries[k][1].kind = "optional"
                  /\ k \notin last.log[n].coverage

\* a successful pass over two items or more in which a Hook met an item that
\* an ordinary key then bound
C29_WitnessItems ==
    /\ last.called /\ last.ok
    /\ \E n \in Events("done") :
           /\ last.log[n].ok /\ ~last.log[n].ignore
           /\ Len(last.log[n].data.v) >= 2
           /\ \E h \in PassEvents(n, "skip") \cup PassEvents(n, "hook") :
                  \E m \in PassEvents(n, "bind") : last.log[m].key = last.log[h].key

(***************************************************************************)
(* Forbidden keys beside other keys.                                       *)
(***************************************************************************)
\* C30: a pass over one item whose key the key-schema of a Forbidden key
\* accepts, and whose value its value-schema accepts, fails with the
\* forbidden-key error, whatever the kind of the Forbidden (literal, type,
\* validator) and whatever ordinary or Optional keys the schema also holds
C30_ForbiddenNotBypassed ==
    last.called =>
        \A n \in Events("done") :
            /\ Len(last.log[n].data.v) = 1
            /\ BothForbidden(last.log[n], last.log[n].data.v[1]) # {}
            => Ended(last.log[n], "SchemaForbiddenKeyError")

====
